---- MODULE Spec2Model ----
(***************************************************************************)
(* A model of the GS-232B -> Pelco-D rotator gateway                       *)
(* (core/controller.py, core/protocols.py, ui/main_window.py).             *)
(*                                                                         *)
(* Angles are integers in centidegrees (the resolution of the Pelco wire   *)
(* values: query_angle returns int centidegrees and the controller divides *)
(* by 100.0).  One revolution is 36000.  Configuration values are kept in  *)
(* degrees, as in the configuration file, and scaled where the code uses   *)
(* them.                                                                   *)
(***************************************************************************)
EXTENDS Integers, Sequences, FiniteSets, TLC

VARIABLES
    config,      \* the parsed configuration the ControlSystem was built with
    rotator,     \* RotationManager: current_true_az, last_raw_az, initialized
    samples,     \* tracker check: raw samples fed to update_raw_angle so far
    trues,       \* tracker check: current_true_az after each of those samples
    plan,        \* planner check: the last request and what get_target_plan returned
    codec,       \* codec check: the last call of the Pelco-D codec and its result
    running,             \* ControlSystem.running
    pc,                  \* where each thread is in its code
    pelco_lock,          \* ControlSystem.pelco_lock: Free or the thread holding it
    inbox,               \* GS-232 transport: the command waiting to be received
    now,                 \* time.time()
    current_time,        \* _run: the time sampled at the start of the tick
    last_action_time,    \* ControlSystem.last_action_time
    manual_move_expire,  \* ControlSystem.manual_move_expire (0 = inactive)
    is_returning,        \* ControlSystem.is_returning
    cmd,                 \* _run: the command received in this tick
    response,            \* _run: what _process_command returned in this tick
    curr_az_raw,         \* _execute_angle_control_command: the phase 1 reading
    w_plan,              \* _execute_angle_control_command: the target plan
    q_az,                \* _execute_angle_query_command: azimuth, per thread
    q_el,                \* _execute_angle_query_command: elevation, per thread
    ar,                  \* _perform_auto_return: targets, loop index, wait_count
    sel_req,             \* select_angle: the (angle, set_cmd) of the worker
    lastFrame,           \* Pelco transport: the frame the last step handed to hw.send
    lastUpdate,          \* RotationManager: who changed it in the last step
    tick_due,            \* _run: the dead-man timer had expired when the tick began
    tick_stops,          \* _run: who sent move('stop') in this tick, in order
    starts,              \* start() calls made so far
    spawned,             \* times self.thread.start() has started the loop worker
    stops,               \* stop() calls that have returned
    joins,               \* times stop() has called self.thread.join
    gs_closed,           \* stop() has closed the GS-232 transport
    pelco_closed,        \* stop() has closed the Pelco transport
    stop_pc,             \* where the caller of stop() is in its code
    join_left,           \* seconds left of the join(timeout=5) in progress
    lastStatus,          \* status observer: the call made in the last step
    tick_armed,          \* _run: the dead-man timer was armed when the tick began
    w_success,           \* _execute_angle_control_command: success_az, success_el
                         \* (kept until the loop worker's next step)
    upd                  \* update_raw_angle: the diff a thread has computed
                         \* from last_raw_az and not yet applied

trackVars == <<samples, trues, plan, codec>>

lifeVars == <<starts, spawned, stops, joins, gs_closed, pelco_closed, stop_pc,
              join_left>>

sysVars == <<running, pc, pelco_lock, inbox, now, current_time, last_action_time,
             manual_move_expire, is_returning, cmd, response, curr_az_raw,
             w_plan, q_az, q_el, ar, sel_req, lastFrame, lastUpdate, tick_due,
             tick_stops, lifeVars, lastStatus, tick_armed, w_success, upd>>

vars == <<config, rotator, samples, trues, plan, codec, sysVars>>

Rev == 36000
Half == 18000

\* math.isclose(diff, 180, abs_tol=0.1), in centidegrees
AntipodalTol == 10

\* Python's None where a number is expected (a reading, a parsed argument)
None == -1000000

Abs(x) == IF x < 0 THEN -x ELSE x

NoPlan == [req |-> None]
NoCodec == [kind |-> "none"]

(***************************************************************************)
(* Configuration (already parsed; the model draws it from a small set).    *)
(***************************************************************************)
DefaultConfig ==
    [min_az |-> -360, max_az |-> 360, azimuth_offset |-> 0,
     initial_azimuth |-> 0, min_elevation |-> 0, max_elevation |-> 90]

Configs ==
    { DefaultConfig,
      [DefaultConfig EXCEPT !.azimuth_offset = 10],
      [DefaultConfig EXCEPT !.min_az = -180, !.max_az = 540] }

(***************************************************************************)
(* RotationManager                                                         *)
(***************************************************************************)
RotatorInit == [current_true_az |-> 0, last_raw_az |-> 0, initialized |-> FALSE]

\* update_raw_angle with the +/-360 adjustment of the difference left out
update_raw_angle_nowrap(rot, cfg, raw_az) ==
    LET corrected_raw == (raw_az + cfg.azimuth_offset * 100) % Rev
    IN  IF ~rot.initialized
        THEN [current_true_az |-> corrected_raw, last_raw_az |-> corrected_raw,
              initialized |-> TRUE]
        ELSE [current_true_az |-> rot.current_true_az + (corrected_raw - rot.last_raw_az),
              last_raw_az |-> corrected_raw,
              initialized |-> TRUE]

\* update_raw_angle(raw_az): raw_az in centidegrees (the caller's value / 100.0
\* is degrees; the offset is degrees).
update_raw_angle(rot, cfg, raw_az) ==
    LET corrected_raw == (raw_az + cfg.azimuth_offset * 100) % Rev
        d0   == corrected_raw - rot.last_raw_az
        diff == IF d0 < -Half THEN d0 + Rev
                ELSE IF d0 > Half THEN d0 - Rev
                ELSE d0
    IN  IF ~rot.initialized
        THEN [current_true_az |-> corrected_raw, last_raw_az |-> corrected_raw,
              initialized |-> TRUE]
        ELSE [current_true_az |-> rot.current_true_az + diff,
              last_raw_az |-> corrected_raw,
              initialized |-> TRUE]

\* get_target_plan with the antipodal tie-break left out
get_target_plan_notie(rot, cfg, target_req_az) ==
    LET diff        == ((target_req_az % Rev) - (rot.current_true_az % Rev)) % Rev
        target_true == IF diff < Half THEN rot.current_true_az + diff
                       ELSE rot.current_true_az - (Rev - diff)
    IN  [target_true |-> target_true,
         direction   |-> IF diff < Half THEN "right" ELSE "left",
         is_safe     |-> (cfg.min_az * 100 <= target_true
                          /\ target_true <= cfg.max_az * 100)]

\* get_target_plan(target_req_az) -> (target_true, direction, is_safe)
get_target_plan(rot, cfg, target_req_az) ==
    LET target_norm  == target_req_az % Rev
        current_norm == rot.current_true_az % Rev
        diff         == (target_norm - current_norm) % Rev
        antipodal    == Abs(diff - Half) <= AntipodalTol
        direction    == IF antipodal
                        THEN (IF target_norm > current_norm THEN "right" ELSE "left")
                        ELSE IF diff < Half THEN "right" ELSE "left"
        distance     == IF antipodal THEN Half
                        ELSE IF diff < Half THEN diff ELSE Rev - diff
        target_true  == IF direction = "right"
                        THEN rot.current_true_az + distance
                        ELSE rot.current_true_az - distance
    IN  [target_true |-> target_true,
         direction   |-> direction,
         is_safe     |-> (cfg.min_az * 100 <= target_true
                          /\ target_true <= cfg.max_az * 100)]

\* calibrate_turns(turns)
rot_calibrate_turns(rot, turns) ==
    [rot EXCEPT !.current_true_az = @ + turns * Rev]

(***************************************************************************)
(* PelcoDProtocol: framing.  A frame is a sequence of byte values.         *)
(***************************************************************************)
START_BYTE == 255
DEFAULT_ADDRESS == 1

RECURSIVE SumBytes(_, _, _)
\* sum(b[i..j]) of a byte sequence
SumBytes(b, i, j) == IF i > j THEN 0 ELSE b[i] + SumBytes(b, i + 1, j)

\* generate_packet(command1, command2, data1, data2)
generate_packet(command1, command2, data1, data2) ==
    LET header == <<START_BYTE, DEFAULT_ADDRESS, command1, command2, data1, data2>>
        checksum == SumBytes(header, 2, Len(header)) % 256
    IN  Append(header, checksum)

\* _validate_response(response): "True", "False", or "ValueError" when it
\* raises.  The checksums are computed first, then the configuration test.
validate_response(cfg, resp) ==
    LET expected_checksum == SumBytes(resp, 2, Len(resp) - 1) % 256
        actual_checksum == resp[Len(resp)]
    IN  IF cfg.min_elevation > cfg.max_elevation THEN "ValueError"
        ELSE IF expected_checksum = actual_checksum THEN "True" ELSE "False"

(***************************************************************************)
(* PelcoDProtocol: the angle mappings.  Values are whole centidegrees.     *)
(***************************************************************************)
\* _apply_angle_correction(raw_value, cmd_type)
apply_angle_correction(cfg, raw_value, cmd_type) ==
    IF cmd_type = "0x53"
    THEN (raw_value + Abs(cfg.min_elevation) * 100) % Rev
    ELSE IF cmd_type = "0x51"
    THEN (raw_value + (cfg.azimuth_offset + cfg.initial_azimuth) * 100) % Rev
    ELSE raw_value

\* _send_angle_command: the 16 bits of int(angle * 100) that go into data1, data2
send_angle_value(angle) == angle % 65536

\* _handle_azimuth(angle): the wire value, or None when nothing is sent
handle_azimuth(angle) ==
    IF angle < 0 THEN None
    ELSE send_angle_value(IF angle > Rev THEN angle % Rev ELSE angle)

\* _handle_elevation(angle): the wire value
handle_elevation(cfg, angle) ==
    LET abs_min == Abs(cfg.min_elevation) * 100
    IN  send_angle_value(IF angle >= abs_min THEN angle - abs_min
                         ELSE Rev + cfg.min_elevation * 100 + angle)

(***************************************************************************)
(* ControlSystem: threads, time and the two transports                     *)
(***************************************************************************)
Loop == "loop"      \* the worker running _run
Sel  == "sel"       \* a select_angle worker
Cal  == "cal"       \* a caller of calibrate_turns
Gui  == "gui"       \* the Tk thread behind the manual-jog buttons

Workers == {Loop, Sel, Cal}

Free == "free"

\* Time is counted in units of 0.5 s and stops at MaxTime.
MaxTime == 4

\* manual_move_expire = time.time() + 0.5
ManualHold == 1

\* auto_return_timeout (4 * 3600 s in the code), scaled to the model's clock
AutoReturnTimeout == 2

\* while wait_count < 15
WaitTicks == 15

\* |current_true_az| the model follows
MaxTrueAz == 40000

\* what the device may answer to an azimuth / elevation query (raw wire value)
DeviceAz == {1000, 30000}
DeviceEl == {4500}

\* float(parts[0]) of the W commands the client sends (centidegrees)
WTargets == {10000}

\* str.startswith, str.endswith, s[i:] and s[i:j] (0-based, as in Python)
StartsWith(s, p) == Len(s) >= Len(p) /\ SubSeq(s, 1, Len(p)) = p
EndsWith(s, p) == Len(s) >= Len(p) /\ SubSeq(s, Len(s) - Len(p) + 1, Len(s)) = p
Slice(s, i, j) == SubSeq(s, i + 1, j)

RECURSIVE Strip(_)
\* str.strip() for blanks
Strip(s) ==
    IF Len(s) = 0 THEN s
    ELSE IF SubSeq(s, 1, 1) = " " THEN Strip(SubSeq(s, 2, Len(s)))
    ELSE IF SubSeq(s, Len(s), Len(s)) = " " THEN Strip(SubSeq(s, 1, Len(s) - 1))
    ELSE s

\* the argument strings the client's commands carry, with what split() and
\* float() make of each (centidegrees); any other string has a token that
\* float() rejects
ArgStrings ==
    { <<"100 45", <<10000, 4500>>>>, <<"45 -5", <<4500, -500>>>>,
      <<"45.6 5.5", <<4560, 550>>>>, <<"45", <<4500>>>> }

\* [float(x) for x in body.split()], or << >> when float() raises
split_floats(body) ==
    IF \E e \in ArgStrings : e[1] = body
    THEN (CHOOSE e \in ArgStrings : e[1] = body)[2]
    ELSE << >>

\* round(x) of Python 3 (half to even), x in centidegrees
round(x) ==
    LET q == x \div 100
        r == x % 100
    IN  IF r < 50 THEN q * 100
        ELSE IF r > 50 THEN (q + 1) * 100
        ELSE IF q % 2 = 0 THEN q * 100 ELSE (q + 1) * 100

\* _process_command with the bare C2 entry tried before the combined test
process_command_c2_first(text) ==
    IF StartsWith(text, "M_") THEN "M"
    ELSE IF StartsWith(text, "C2") THEN "C2"
    ELSE IF StartsWith(text, "W") /\ EndsWith(text, "C2") THEN "C2W"
    ELSE IF StartsWith(text, "W") THEN "W"
    ELSE IF StartsWith(text, "S") THEN "S"
    ELSE IF StartsWith(text, "\\set_pos") THEN "set_pos"
    ELSE ""

\* _process_command: the handler the text goes to ("" when nothing matches)
process_command(text) ==
    IF StartsWith(text, "M_") THEN "M"
    ELSE IF StartsWith(text, "C2W")
            \/ (StartsWith(text, "W") /\ EndsWith(text, "C2")) THEN "C2W"
    ELSE IF StartsWith(text, "C2") THEN "C2"
    ELSE IF StartsWith(text, "W") THEN "W"
    ELSE IF StartsWith(text, "S") THEN "S"
    ELSE IF StartsWith(text, "\\set_pos") THEN "set_pos"
    ELSE ""

\* the w_cmd string the handler op hands to _execute_angle_control_command
\* (for set_pos: the string _handle_setpos parses)
control_body(text, op) ==
    IF op = "C2W"
    THEN (IF StartsWith(text, "C2W") THEN Slice(text, 3, Len(text))
          ELSE Slice(text, 1, Len(text) - 2))
    ELSE IF op = "W" THEN Strip(Slice(text, 1, Len(text)))
    ELSE Strip(Slice(text, 8, Len(text)))

\* float(parts[0]), float(parts[1]) of the angle-control command the handler
\* op runs, or None, None when the parse raises; _handle_setpos wants exactly
\* two numbers and rounds them
control_args(text, op) ==
    LET fs == split_floats(control_body(text, op))
    IN  IF op = "set_pos"
        THEN (IF Len(fs) = 2 THEN <<round(fs[1]), round(fs[2])>>
              ELSE <<None, None>>)
        ELSE (IF Len(fs) >= 2 THEN <<fs[1], fs[2]>> ELSE <<None, None>>)

\* a received command: its text, the handler it is dispatched to and the
\* arguments that handler parses (az = None: the arguments do not parse)
Command(text) ==
    LET op == process_command(text)
    IN  IF op = "M" THEN [text |-> text, op |-> op, dir |-> Slice(text, 2, Len(text))]
        ELSE IF op \in {"W", "C2W", "set_pos"}
        THEN [text |-> text, op |-> op, az |-> control_args(text, op)[1],
              el |-> control_args(text, op)[2]]
        ELSE [text |-> text, op |-> op]

\* commands the GS-232 client may send
CommandTexts == {"M_up", "M_stop", "C2", "S", "W100 45", "Wabc"}
Commands == { Command(t) : t \in CommandTexts }

\* a wider set: combined forms, the \set_pos alias, input matching nothing
AllCommandTexts ==
    CommandTexts \cup
    {"C2W100 45", "W100 45C2", "C2Wabc", "\\set_pos 45 -5", "\\set_pos 45.6 5.5",
     "\\set_pos 45", "X", "M_foo"}
AllCommands == { Command(t) : t \in AllCommandTexts }

\* select_angle(angle, set_cmd) calls of the user interfaces
SelRequests ==
    { [angle |-> 20000, set_cmd |-> "0x4B"], [angle |-> 3000, set_cmd |-> "0x4D"] }

\* the directions PelcoDProtocol.move documents
Directions == {"up", "down", "left", "right", "stop"}

\* command2, data1, data2 of the packet move(direction) hands to the
\* transport with the default speeds: stop is all zero, any other direction
\* carries both speeds, and a direction that is none of the four leaves
\* command2 at 0
move(direction) ==
    IF direction = "stop" THEN [command2 |-> 0, data1 |-> 0, data2 |-> 0]
    ELSE [command2 |-> IF direction = "right" THEN 2
                       ELSE IF direction = "left" THEN 4
                       ELSE IF direction = "up" THEN 8
                       ELSE IF direction = "down" THEN 16
                       ELSE 0,
          data1 |-> 32, data2 |-> 32]

NoFrame == [kind |-> "none"]
NoResp == [text |-> "none"]
NoCmd == [op |-> "none"]
NoMsg == [c |-> NoCmd]
NoReq == [set_cmd |-> "none"]
NoUpdate == [by |-> "none"]
NoStatus == [by |-> "none"]
NoSets == [az |-> "none", el |-> "none"]

\* a call of update_raw_angle or calibrate_turns by thread t; holder is who
\* holds pelco_lock during the call
Update(t, holder) == [by |-> t, holder |-> holder]

\* API callers (select_angle workers, calibrate_turns callers) active at once
MaxCallers == 1

ActiveCallers == Cardinality({ t \in {Sel, Cal} : pc[t] # "idle" })
NoAr == [i |-> 0]

Resp(text) == [text |-> text]

\* a thread is between the send and the read of a query exchange
InExchange(t) == pc[t] \in {"w_q_recv", "q_az_recv", "q_el_recv", "ar_q_recv"}

\* hw.send(packet) by thread t; holder is who holds pelco_lock during the send
Frame(t, kind, code, value, src, holder, pl) ==
    [by |-> t, kind |-> kind, code |-> code, value |-> value, src |-> src,
     holder |-> holder,
     overlap |-> (\E u \in Workers \ {t} : InExchange(u)),
     plan |-> pl]

Goto(t, label) == pc' = [pc EXCEPT ![t] = label]

InitSystem ==
    /\ running = FALSE
    /\ pc = [t \in Workers |-> IF t = Loop THEN "new" ELSE "idle"]
    /\ pelco_lock = Free
    /\ inbox = NoMsg
    /\ now = 0
    /\ current_time = 0
    /\ last_action_time = 0
    /\ manual_move_expire = 0
    /\ is_returning = FALSE
    /\ cmd = NoMsg
    /\ response = NoResp
    /\ curr_az_raw = None
    /\ w_plan = NoPlan
    /\ q_az = [t \in Workers |-> None]
    /\ q_el = [t \in Workers |-> None]
    /\ ar = NoAr
    /\ sel_req = NoReq
    /\ lastFrame = NoFrame
    /\ lastUpdate = NoUpdate
    /\ tick_due = FALSE
    /\ tick_stops = << >>
    /\ starts = 0
    /\ spawned = 0
    /\ stops = 0
    /\ joins = 0
    /\ gs_closed = FALSE
    /\ pelco_closed = FALSE
    /\ stop_pc = "idle"
    /\ join_left = 0
    /\ lastStatus = NoStatus
    /\ tick_armed = FALSE
    /\ w_success = NoSets
    /\ upd = [t \in Workers |-> None]

\* ControlSystem.__init__: _update_initial_status has asked the device once;
\* the tracker is seeded when both readings came back.
Init ==
    /\ config = DefaultConfig
    /\ rotator \in {RotatorInit} \cup
         { update_raw_angle(RotatorInit, config,
                            apply_angle_correction(config, r, "0x51")) : r \in DeviceAz }
    /\ samples = << >>
    /\ trues = << >>
    /\ plan = NoPlan
    /\ codec = NoCodec
    /\ InitSystem

(***************************************************************************)
(* The environment: the clock and the GS-232 client                        *)
(***************************************************************************)
Tick ==
    /\ now < MaxTime
    /\ now' = now + 1
    /\ lastFrame' = NoFrame
    /\ lastUpdate' = NoUpdate
    /\ lastStatus' = NoStatus
    /\ UNCHANGED <<config, rotator, trackVars, upd, tick_armed, w_success, lifeVars, running, pc, pelco_lock, inbox,
                   current_time, last_action_time, manual_move_expire,
                   is_returning, cmd, response, curr_az_raw, w_plan, q_az,
                   q_el, ar, sel_req, tick_due, tick_stops>>

\* A command arrives on the GS-232 transport.  It is stamped with the
\* auto-return waypoint whose wait was in progress when it arrived (0: none)
\* and with whether an armed dead-man timer had already expired by then.
\* The bytes stay in the socket until the loop's next recv, so the moment of
\* arrival is followed only where it can matter: while recv waits, during a
\* waypoint wait of auto-return, and while the dead-man timer is armed.
DeliverFrom(cs) ==
    /\ inbox = NoMsg
    /\ ~gs_closed
    /\ pc[Loop] \in {"top", "ar_wait"} \/ manual_move_expire > 0
    /\ \E c \in cs :
         inbox' = [c |-> c,
                   wp |-> IF pc[Loop] = "ar_wait" THEN ar.i ELSE 0,
                   late |-> (manual_move_expire > 0 /\ now > manual_move_expire)]
    /\ lastFrame' = NoFrame
    /\ lastUpdate' = NoUpdate
    /\ lastStatus' = NoStatus
    /\ UNCHANGED <<config, rotator, trackVars, upd, tick_armed, w_success, lifeVars, running, pc, pelco_lock, now,
                   current_time, last_action_time, manual_move_expire,
                   is_returning, cmd, response, curr_az_raw, w_plan, q_az,
                   q_el, ar, sel_req, tick_due, tick_stops>>

Deliver == DeliverFrom(Commands)

DeliverAny == DeliverFrom(AllCommands)

(***************************************************************************)
(* start() and the main loop _run                                          *)
(***************************************************************************)
\* start() spawning a worker on every call
start_spawns_always(r) == 1

\* the workers a call of start() spawns: if not self.running: ...
\* self.thread.start()
start_spawns(r) == IF ~r THEN 1 ELSE 0

\* the first start() on a constructed ControlSystem
start ==
    /\ ~running
    /\ pc[Loop] = "new"
    /\ running' = TRUE
    /\ Goto(Loop, "top")
    /\ starts' = starts + 1
    /\ spawned' = spawned + start_spawns(running)
    /\ lastFrame' = NoFrame
    /\ lastUpdate' = NoUpdate
    /\ lastStatus' = NoStatus
    /\ UNCHANGED <<stops, joins, gs_closed, pelco_closed, stop_pc, join_left>>
    /\ UNCHANGED <<config, rotator, trackVars, upd, tick_armed, w_success, pelco_lock, inbox, now,
                   current_time, last_action_time, manual_move_expire,
                   is_returning, cmd, response, curr_az_raw, w_plan, q_az,
                   q_el, ar, sel_req, tick_due, tick_stops>>

\* _process_command: where the command is handled, or "" when it is answered
\* at once
Dispatch(c) ==
    IF c.op = "M" THEN "m_exec"
    ELSE IF c.op = "C2" THEN "q_send"
    ELSE IF c.op \in {"W", "C2W", "set_pos"}
    THEN (IF c.az = None THEN "" ELSE "w_q_send")
    ELSE IF c.op = "S" THEN "s_exec"
    ELSE ""

\* a loop that never looks at the flag
loop_test_always(r) == TRUE

\* while self.running: the test at the top of every pass of _run
loop_test(r) == r

\* while self.running: current_time = time.time();
\* data = self.gs232b.recv(1024, timeout=0.1) and the dispatch of the command
run_top ==
    /\ pc[Loop] = "top"
    /\ loop_test(running)
    /\ current_time' = now
    /\ tick_due' = (manual_move_expire > 0 /\ now > manual_move_expire)
    /\ tick_armed' = (manual_move_expire > 0)
    /\ IF inbox = NoMsg
       THEN /\ Goto(Loop, "watchdog")
            /\ UNCHANGED <<inbox, last_action_time, is_returning, cmd, response>>
       ELSE /\ last_action_time' = now
            /\ is_returning' = FALSE
            /\ cmd' = inbox
            /\ inbox' = NoMsg
            /\ IF Dispatch(inbox.c) = ""
               THEN response' = Resp("") /\ Goto(Loop, "watchdog")
               ELSE response' = response /\ Goto(Loop, Dispatch(inbox.c))
    /\ lastFrame' = NoFrame
    /\ lastUpdate' = NoUpdate
    /\ lastStatus' = NoStatus
    /\ UNCHANGED <<config, rotator, trackVars, upd, w_success, lifeVars, running, pelco_lock, now,
                   manual_move_expire, curr_az_raw, w_plan, q_az, q_el, ar,
                   sel_req, tick_stops>>

\* the timer armed by a jog only when it is not armed yet
manual_arm_once(action, expire, t) ==
    IF action = "stop" THEN 0
    ELSE IF expire > 0 THEN expire ELSE t + ManualHold

\* manual_move_expire after _handle_manual_gui_command has handled `action`
\* at time t: 0 for stop, time.time() + 0.5 for anything else
manual_arm(action, expire, t) ==
    IF action = "stop" THEN 0 ELSE t + ManualHold

\* _handle_manual_gui_command
handle_manual_gui_command ==
    /\ pc[Loop] = "m_exec"
    /\ pelco_lock = Free
    /\ lastFrame' = Frame(Loop, "move", cmd.c.dir, 0, "M", Loop, NoPlan)
    /\ manual_move_expire' = manual_arm(cmd.c.dir, manual_move_expire, now)
    /\ tick_stops' = IF cmd.c.dir = "stop" THEN Append(tick_stops, "M")
                     ELSE tick_stops
    /\ response' = Resp("ACK")
    /\ Goto(Loop, "watchdog")
    /\ lastUpdate' = NoUpdate
    /\ lastStatus' = NoStatus
    /\ UNCHANGED <<config, rotator, trackVars, upd, tick_armed, w_success, lifeVars, running, pelco_lock, inbox, now,
                   current_time, last_action_time, is_returning, cmd,
                   curr_az_raw, w_plan, q_az, q_el, ar, sel_req, tick_due>>

\* _handle_stop leaving the timer as it is
StopKeepsTimer == manual_move_expire

\* self.manual_move_expire = 0 in _handle_stop
StopDisarm == 0

\* _handle_stop
handle_stop ==
    /\ pc[Loop] = "s_exec"
    /\ pelco_lock = Free
    /\ lastFrame' = Frame(Loop, "move", "stop", 0, "S", Loop, NoPlan)
    /\ manual_move_expire' = StopDisarm
    /\ is_returning' = FALSE
    /\ tick_stops' = Append(tick_stops, "S")
    /\ response' = Resp("\r\n")
    /\ Goto(Loop, "watchdog")
    /\ lastUpdate' = NoUpdate
    /\ lastStatus' = NoStatus
    /\ UNCHANGED <<config, rotator, trackVars, upd, tick_armed, w_success, lifeVars, running, pelco_lock, inbox, now,
                   current_time, last_action_time, cmd, curr_az_raw, w_plan,
                   q_az, q_el, ar, sel_req, tick_due>>

\* the watchdog of _run: the dead-man timer
WatchdogDue == manual_move_expire > 0 /\ current_time > manual_move_expire

\* the watchdog forgetting to disarm the timer
WatchdogKeepArmed == manual_move_expire

\* manual_move_expire after the watchdog has sent its stop
WatchdogDisarm == 0

run_watchdog ==
    /\ pc[Loop] = "watchdog"
    /\ IF WatchdogDue
       THEN /\ pelco_lock = Free
            /\ lastFrame' = Frame(Loop, "move", "stop", 0, "watchdog", Loop, NoPlan)
            /\ manual_move_expire' = WatchdogDisarm
            /\ tick_stops' = Append(tick_stops, "watchdog")
       ELSE lastFrame' = NoFrame /\ UNCHANGED <<manual_move_expire, tick_stops>>
    /\ Goto(Loop, "idlecheck")
    /\ w_success' = NoSets
    /\ lastUpdate' = NoUpdate
    /\ lastStatus' = NoStatus
    /\ UNCHANGED <<config, rotator, trackVars, upd, tick_armed, lifeVars, running, pelco_lock, inbox, now,
                   current_time, last_action_time, is_returning, cmd, response,
                   curr_az_raw, w_plan, q_az, q_el, ar, sel_req, tick_due>>

\* the idle check of _run, which ends the tick (the tick's locals are dropped)
run_idlecheck ==
    /\ pc[Loop] = "idlecheck"
    /\ IF ~is_returning /\ current_time - last_action_time > AutoReturnTimeout
       THEN is_returning' = TRUE /\ Goto(Loop, "ar_q_send")
       ELSE is_returning' = is_returning /\ Goto(Loop, "top")
    /\ cmd' = NoMsg
    /\ response' = NoResp
    /\ curr_az_raw' = None
    /\ w_plan' = NoPlan
    /\ tick_due' = FALSE
    /\ tick_armed' = FALSE
    /\ w_success' = NoSets
    /\ tick_stops' = << >>
    /\ lastFrame' = NoFrame
    /\ lastUpdate' = NoUpdate
    /\ lastStatus' = NoStatus
    /\ UNCHANGED <<config, rotator, trackVars, upd, lifeVars, running, pelco_lock, inbox, now,
                   current_time, last_action_time, manual_move_expire, q_az, q_el,
                   ar, sel_req>>

(***************************************************************************)
(* _execute_angle_control_command (W), on the loop worker                  *)
(***************************************************************************)
\* phase 1: with self.pelco_lock: query_angle(0x51) sends its frame
control_query_send ==
    /\ pc[Loop] = "w_q_send"
    /\ pelco_lock = Free
    /\ pelco_lock' = Loop
    /\ lastFrame' = Frame(Loop, "query", "0x51", 0, "W", Loop, NoPlan)
    /\ Goto(Loop, "w_q_recv")
    /\ lastUpdate' = NoUpdate
    /\ lastStatus' = NoStatus
    /\ UNCHANGED <<config, rotator, trackVars, upd, tick_armed, w_success, lifeVars, running, inbox, now, current_time,
                   last_action_time, manual_move_expire, is_returning, cmd,
                   response, curr_az_raw, w_plan, q_az, q_el, ar, sel_req,
                   tick_due, tick_stops>>

\* the readings query_angle may return: a corrected value, or None
AzReadings == { apply_angle_correction(config, r, "0x51") : r \in DeviceAz }
ElReadings == { apply_angle_correction(config, r, "0x53") : r \in DeviceEl }

\* query_angle leaving by the ValueError of _validate_response
Raised == -2000000

\* pelco_corr["min_elevation"] > pelco_corr["max_elevation"]
Inverted(cfg) == cfg.min_elevation > cfg.max_elevation

\* what a call of query_angle comes to: None when no valid frame arrives,
\* else the validator is run on the frame and either raises or lets the
\* corrected reading through
query_angle(cfg, readings) ==
    {None} \cup (IF Inverted(cfg) THEN {Raised} ELSE readings)

\* what the caller of _execute_angle_control_command does with w_result:
\* _handle_w and _handle_setpos return it; _handle_combined_command runs the
\* angle query if it is a non-empty string and returns "" otherwise
combined_followup(c, w_result) ==
    IF c.op # "C2W" THEN "return"
    ELSE IF w_result # "" THEN "query" ELSE "empty"

\* the loop's response and next position once the angle-control command has
\* returned w_result
AfterControl(w_result) ==
    LET f == combined_followup(cmd.c, w_result)
    IN  IF f = "query" THEN response' = response /\ Goto(Loop, "q_send")
        ELSE IF f = "empty" THEN response' = Resp("") /\ Goto(Loop, "watchdog")
        ELSE response' = Resp(w_result) /\ Goto(Loop, "watchdog")

\* phase 1 going on without a reading
control_phase1_outcome_blind(r, pl) ==
    IF r # None /\ ~pl.is_safe THEN "?> \r\n" ELSE "go"

\* phase 1 ignoring the limit check
control_phase1_outcome_nolimit(r, pl) ==
    IF r = None THEN "" ELSE "go"

\* phase 1 once the reading r is back: what the command does next
\* ("" and "?> \r\n" end it, "go" lets it move)
control_phase1_outcome(r, pl) ==
    IF r = None THEN ""
    ELSE IF ~pl.is_safe THEN "?> \r\n"
    ELSE "go"

\* phase 1 keeping the lock when it returns early
control_phase1_lock_kept(out) == IF out = "go" THEN Free ELSE Loop

\* pelco_lock once phase 1 is over with outcome out: the with block has been
\* left, by its end, by a return or by an exception
control_phase1_lock(out) == Free

\* phase 1: the reading, the tracker update and the limit check, then the
\* lock is released (also by both early returns)
control_query_recv ==
    /\ pc[Loop] = "w_q_recv"
    /\ \E r \in query_angle(config, AzReadings) :
         LET got  == r \notin {None, Raised}
             rot2 == IF got THEN update_raw_angle(rotator, config, r)
                     ELSE rotator
             pl   == get_target_plan(rot2, config, cmd.c.az)
             out  == IF r = Raised THEN ""
                     ELSE control_phase1_outcome(r, pl)
         IN  /\ Abs(rot2.current_true_az) <= MaxTrueAz
             /\ curr_az_raw' = IF got THEN r ELSE None
             /\ rotator' = rot2
             /\ w_plan' = IF got THEN [req |-> cmd.c.az, out |-> pl] ELSE NoPlan
             /\ IF out = "go"
                THEN response' = response /\ Goto(Loop, "w_set_az")
                ELSE AfterControl(out)
             /\ pelco_lock' = control_phase1_lock(out)
    /\ lastFrame' = NoFrame
    /\ lastUpdate' = IF curr_az_raw' = None THEN NoUpdate ELSE Update(Loop, pelco_lock)
    /\ lastStatus' = NoStatus
    /\ UNCHANGED <<config, trackVars, upd, tick_armed, w_success, lifeVars, running, inbox, now, current_time,
                   last_action_time, manual_move_expire, is_returning, cmd,
                   q_az, q_el, ar, sel_req, tick_due, tick_stops>>

\* what hw.send(packet) returns, which set_angle hands on to its caller
SendResults == {"True", "False"}

\* the acknowledgement withheld unless both sets were sent
control_result_strict(success_az, success_el) ==
    IF success_az = "True" /\ success_el = "True" THEN "ACK\r\n"
    ELSE ""

\* if success_az and success_el: return "ACK\r\n"; else: log a warning and
\* return "ACK\r\n"
control_result(success_az, success_el) ==
    IF success_az = "True" /\ success_el = "True" THEN "ACK\r\n"
    ELSE "ACK\r\n"

\* phase 2: with self.pelco_lock: set_angle(target_az_req % 360, 0x4B)
control_set_az ==
    /\ pc[Loop] = "w_set_az"
    /\ pelco_lock = Free
    /\ lastFrame' = IF handle_azimuth(cmd.c.az % Rev) = None THEN NoFrame
                    ELSE Frame(Loop, "set", "0x4B", handle_azimuth(cmd.c.az % Rev),
                               "W", Loop, w_plan)
    /\ \E ok \in SendResults :
         w_success' = [w_success EXCEPT
                         !.az = IF handle_azimuth(cmd.c.az % Rev) = None
                                THEN "False" ELSE ok]
    /\ Goto(Loop, "w_set_el")
    /\ lastUpdate' = NoUpdate
    /\ lastStatus' = NoStatus
    /\ UNCHANGED <<config, rotator, trackVars, upd, tick_armed, lifeVars, running, pelco_lock, inbox, now,
                   current_time, last_action_time, manual_move_expire,
                   is_returning, cmd, response, curr_az_raw, w_plan, q_az, q_el,
                   ar, sel_req, tick_due, tick_stops>>

\* phase 3: with self.pelco_lock: set_angle(target_el_req, 0x4D); ACK
control_set_el ==
    /\ pc[Loop] = "w_set_el"
    /\ pelco_lock = Free
    /\ lastFrame' = Frame(Loop, "set", "0x4D", handle_elevation(config, cmd.c.el),
                          "W", Loop, NoPlan)
    /\ \E ok \in SendResults :
         /\ w_success' = [w_success EXCEPT !.el = ok]
         /\ AfterControl(control_result(w_success.az, ok))
    /\ lastUpdate' = NoUpdate
    /\ lastStatus' = NoStatus
    /\ UNCHANGED <<config, rotator, trackVars, upd, tick_armed, lifeVars, running, pelco_lock, inbox, now,
                   current_time, last_action_time, manual_move_expire,
                   is_returning, cmd, curr_az_raw, w_plan, q_az, q_el, ar,
                   sel_req, tick_due, tick_stops>>

(***************************************************************************)
(* _execute_angle_query_command, on any thread t                           *)
(***************************************************************************)
QuerySrc(t) == IF t = Loop THEN "C2" ELSE IF t = Sel THEN "select_angle"
               ELSE "calibrate_turns"

\* with self.pelco_lock: query_angle(0x51) sends its frame
query_send(t) ==
    /\ pc[t] = "q_send"
    /\ pelco_lock = Free
    /\ pelco_lock' = t
    /\ lastFrame' = Frame(t, "query", "0x51", 0, QuerySrc(t), t, NoPlan)
    /\ Goto(t, "q_az_recv")
    /\ w_success' = IF t = Loop THEN NoSets ELSE w_success
    /\ lastUpdate' = NoUpdate
    /\ lastStatus' = NoStatus
    /\ UNCHANGED <<config, rotator, trackVars, upd, tick_armed, lifeVars, running, inbox, now, current_time,
                   last_action_time, manual_move_expire, is_returning, cmd,
                   response, curr_az_raw, w_plan, q_az, q_el, ar, sel_req,
                   tick_due, tick_stops>>

\* the with block of the angle query left with the lock still held by t
query_lock_kept(t) == t

\* the holder of pelco_lock once thread t has left the with block of
\* _execute_angle_query_command, by its end or by an exception
query_lock_released(t) == Free

\* query_angle has raised inside _execute_angle_query_command on thread t:
\* the with block releases the lock and the exception goes to the caller
\* (_run logs it, the select_angle worker logs it, calibrate_turns lets it out)
QueryRaised(t) ==
    /\ pelco_lock' = query_lock_released(t)
    /\ q_az' = [q_az EXCEPT ![t] = None]
    /\ q_el' = [q_el EXCEPT ![t] = None]
    /\ sel_req' = IF t = Sel THEN NoReq ELSE sel_req
    /\ Goto(t, IF t = Loop THEN "watchdog" ELSE "idle")
    /\ lastFrame' = NoFrame

\* the azimuth reading is back; query_angle(0x53) sends its frame
query_az_recv(t) ==
    /\ pc[t] = "q_az_recv"
    /\ \E r \in query_angle(config, AzReadings) :
         IF r = Raised
         THEN QueryRaised(t)
         ELSE /\ q_az' = [q_az EXCEPT ![t] = r]
              /\ lastFrame' = Frame(t, "query", "0x53", 0, QuerySrc(t), pelco_lock,
                                    NoPlan)
              /\ Goto(t, "q_el_recv")
              /\ UNCHANGED <<pelco_lock, q_el, sel_req>>
    /\ lastUpdate' = NoUpdate
    /\ lastStatus' = NoStatus
    /\ UNCHANGED <<config, rotator, trackVars, upd, tick_armed, w_success, lifeVars, running, inbox, now,
                   current_time, last_action_time, manual_move_expire,
                   is_returning, cmd, response, curr_az_raw, w_plan, ar,
                   tick_due, tick_stops>>

\* the elevation reading is back; the with block ends
query_el_recv(t) ==
    /\ pc[t] = "q_el_recv"
    /\ \E e \in query_angle(config, ElReadings) :
         IF e = Raised
         THEN QueryRaised(t)
         ELSE /\ q_el' = [q_el EXCEPT ![t] = e]
              /\ pelco_lock' = query_lock_released(t)
              /\ Goto(t, "q_update")
              /\ lastFrame' = NoFrame
              /\ UNCHANGED <<q_az, sel_req>>
    /\ lastUpdate' = NoUpdate
    /\ lastStatus' = NoStatus
    /\ UNCHANGED <<config, rotator, trackVars, upd, tick_armed, w_success, lifeVars, running, inbox, now,
                   current_time, last_action_time, manual_move_expire,
                   is_returning, cmd, response, curr_az_raw, w_plan, ar,
                   tick_due, tick_stops>>

\* self.status_callback(self.rotator.current_true_az, elevation / 100.0),
\* called by thread t (an observer is registered)
Status(t, true_az, el) == [by |-> t, true_az |-> true_az, el |-> el]

\* the test looking at the azimuth alone
query_ok_az_only(azimuth, elevation) == azimuth # None

\* if azimuth is not None and elevation is not None
query_ok(azimuth, elevation) == azimuth # None /\ elevation # None

\* after the with block: the tracker update, the observer and the formatted
\* answer
query_update(t) ==
    /\ pc[t] = "q_update"
    /\ LET ok   == query_ok(q_az[t], q_el[t])
           rot2 == IF ok THEN update_raw_angle(rotator, config, q_az[t])
                   ELSE rotator
           res  == IF ok
                   THEN [text |-> "AZ=%03d EL=%03d\r\n",
                         az |-> q_az[t] \div 100, el |-> q_el[t] \div 100]
                   ELSE Resp("")
       IN  /\ Abs(rot2.current_true_az) <= MaxTrueAz
           /\ rotator' = rot2
           /\ lastStatus' = IF ok THEN Status(t, rot2.current_true_az, q_el[t])
                             ELSE NoStatus
           /\ IF t = Loop
              THEN response' = res /\ Goto(Loop, "watchdog")
              ELSE response' = response /\ Goto(t, "idle")
    /\ q_az' = [q_az EXCEPT ![t] = None]
    /\ q_el' = [q_el EXCEPT ![t] = None]
    /\ sel_req' = IF t = Sel THEN NoReq ELSE sel_req
    /\ lastFrame' = NoFrame
    /\ lastUpdate' = IF query_ok(q_az[t], q_el[t])
                     THEN Update(t, pelco_lock) ELSE NoUpdate
    /\ UNCHANGED <<config, trackVars, upd, tick_armed, w_success, lifeVars, running, pelco_lock, inbox, now,
                   current_time, last_action_time, manual_move_expire,
                   is_returning, cmd, curr_az_raw, w_plan, ar, tick_due,
                   tick_stops>>

\* corrected_raw of update_raw_angle
corrected_raw_of(cfg, raw_az) == (raw_az + cfg.azimuth_offset * 100) % Rev

\* diff of update_raw_angle, computed from the last_raw_az the thread reads
update_diff(rot, cfg, raw_az) ==
    LET d0 == corrected_raw_of(cfg, raw_az) - rot.last_raw_az
    IN  IF d0 < -Half THEN d0 + Rev
        ELSE IF d0 > Half THEN d0 - Rev
        ELSE d0

\* update_raw_angle on an initialized tracker, statement by statement.  Its
\* caller holds no lock, so the statements of two threads may interleave.
\* First statement: diff = corrected_raw - self.last_raw_az, adjusted
update_read(t) ==
    /\ pc[t] = "q_update"
    /\ query_ok(q_az[t], q_el[t])
    /\ rotator.initialized
    /\ upd' = [upd EXCEPT ![t] = update_diff(rotator, config, q_az[t])]
    /\ Goto(t, "u_add")
    /\ lastFrame' = NoFrame
    /\ lastUpdate' = NoUpdate
    /\ lastStatus' = NoStatus
    /\ UNCHANGED <<config, rotator, trackVars, tick_armed, w_success, lifeVars, running,
                   pelco_lock, inbox, now, current_time, last_action_time,
                   manual_move_expire, is_returning, cmd, response, curr_az_raw,
                   w_plan, q_az, q_el, ar, sel_req, tick_due, tick_stops>>

\* self.current_true_az += diff
update_add(t) ==
    /\ pc[t] = "u_add"
    /\ Abs(rotator.current_true_az + upd[t]) <= MaxTrueAz
    /\ rotator' = [rotator EXCEPT !.current_true_az = @ + upd[t]]
    /\ Goto(t, "u_last")
    /\ lastFrame' = NoFrame
    /\ lastUpdate' = Update(t, pelco_lock)
    /\ lastStatus' = NoStatus
    /\ UNCHANGED <<config, trackVars, upd, tick_armed, w_success, lifeVars, running,
                   pelco_lock, inbox, now, current_time, last_action_time,
                   manual_move_expire, is_returning, cmd, response, curr_az_raw,
                   w_plan, q_az, q_el, ar, sel_req, tick_due, tick_stops>>

\* self.last_raw_az = corrected_raw; back in _execute_angle_query_command
\* the observer is called and the answer formatted
update_last(t) ==
    /\ pc[t] = "u_last"
    /\ rotator' = [rotator EXCEPT
                     !.last_raw_az = corrected_raw_of(config, q_az[t])]
    /\ upd' = [upd EXCEPT ![t] = None]
    /\ lastStatus' = Status(t, rotator.current_true_az, q_el[t])
    /\ IF t = Loop
       THEN /\ response' = [text |-> "AZ=%03d EL=%03d\r\n",
                            az |-> q_az[t] \div 100, el |-> q_el[t] \div 100]
            /\ Goto(Loop, "watchdog")
       ELSE response' = response /\ Goto(t, "idle")
    /\ q_az' = [q_az EXCEPT ![t] = None]
    /\ q_el' = [q_el EXCEPT ![t] = None]
    /\ sel_req' = IF t = Sel THEN NoReq ELSE sel_req
    /\ lastFrame' = NoFrame
    /\ lastUpdate' = Update(t, pelco_lock)
    /\ UNCHANGED <<config, trackVars, tick_armed, w_success, lifeVars, running,
                   pelco_lock, inbox, now, current_time, last_action_time,
                   manual_move_expire, is_returning, cmd, curr_az_raw, w_plan,
                   ar, tick_due, tick_stops>>

(***************************************************************************)
(* _perform_auto_return, called by the loop worker from _run               *)
(***************************************************************************)
\* with self.pelco_lock: query_angle(0x51) sends its frame
auto_return_query_send ==
    /\ pc[Loop] = "ar_q_send"
    /\ pelco_lock = Free
    /\ pelco_lock' = Loop
    /\ lastFrame' = Frame(Loop, "query", "0x51", 0, "auto_return", Loop, NoPlan)
    /\ Goto(Loop, "ar_q_recv")
    /\ lastUpdate' = NoUpdate
    /\ lastStatus' = NoStatus
    /\ UNCHANGED <<config, rotator, trackVars, upd, tick_armed, w_success, lifeVars, running, inbox, now, current_time,
                   last_action_time, manual_move_expire, is_returning, cmd,
                   response, curr_az_raw, w_plan, q_az, q_el, ar, sel_req,
                   tick_due, tick_stops>>

\* _perform_auto_return returning with no finally clause
AutoReturnExitNoFinally ==
    /\ is_returning' = is_returning
    /\ last_action_time' = now
    /\ ar' = NoAr
    /\ Goto(Loop, "top")

\* finally: is_returning = False; back in _run: last_action_time = time.time()
AutoReturnExit ==
    /\ is_returning' = FALSE
    /\ last_action_time' = now
    /\ ar' = NoAr
    /\ Goto(Loop, "top")

\* the waypoints taken in the opposite order
auto_return_targets_reversed(current_raw) ==
    << (current_raw - 36000) % Rev, (current_raw - 24000) % Rev, (current_raw - 12000) % Rev >>

\* targets = [(start_deg - 120) % 360, (start_deg - 240) % 360,
\*            (start_deg - 360) % 360]
auto_return_targets(current_raw) ==
    << (current_raw - 12000) % Rev, (current_raw - 24000) % Rev, (current_raw - 36000) % Rev >>

\* the reading is back: give up on None, else compute the three waypoints
auto_return_query_recv ==
    /\ pc[Loop] = "ar_q_recv"
    /\ pelco_lock' = Free
    /\ \E r \in query_angle(config, AzReadings) :
         IF r \in {None, Raised}
         THEN AutoReturnExit
         ELSE /\ ar' = [i |-> 1, wait_count |-> 0, start |-> r,
                        targets |-> auto_return_targets(r)]
              /\ Goto(Loop, "ar_for")
              /\ UNCHANGED <<is_returning, last_action_time>>
    /\ lastFrame' = NoFrame
    /\ lastUpdate' = NoUpdate
    /\ lastStatus' = NoStatus
    /\ UNCHANGED <<config, rotator, trackVars, upd, tick_armed, w_success, lifeVars, running, inbox, now,
                   current_time, manual_move_expire, cmd, response,
                   curr_az_raw, w_plan, q_az, q_el, sel_req, tick_due,
                   tick_stops>>

\* for t in targets: if not self.is_returning: return; set_angle(t, 0x4B)
auto_return_waypoint ==
    /\ pc[Loop] = "ar_for"
    /\ IF ~is_returning
       THEN AutoReturnExit /\ lastFrame' = NoFrame
       ELSE /\ pelco_lock = Free
            /\ lastFrame' = Frame(Loop, "set", "0x4B",
                                  handle_azimuth(ar.targets[ar.i]),
                                  "auto_return", Loop, NoPlan)
            /\ ar' = [ar EXCEPT !.wait_count = 0]
            /\ Goto(Loop, "ar_wait")
            /\ UNCHANGED <<is_returning, last_action_time>>
    /\ lastUpdate' = NoUpdate
    /\ lastStatus' = NoStatus
    /\ UNCHANGED <<config, rotator, trackVars, upd, tick_armed, w_success, lifeVars, running, pelco_lock, inbox, now,
                   current_time, manual_move_expire, cmd, response, curr_az_raw,
                   w_plan, q_az, q_el, sel_req, tick_due, tick_stops>>

\* time.sleep(1); wait_count += 1; if not self.is_returning: return
\* (a second of a join in progress in stop() goes by with each sleep)
auto_return_wait ==
    /\ pc[Loop] = "ar_wait"
    /\ IF ~is_returning
       THEN AutoReturnExit
       ELSE /\ UNCHANGED <<is_returning, last_action_time>>
            /\ IF ar.wait_count + 1 < WaitTicks
               THEN ar' = [ar EXCEPT !.wait_count = @ + 1] /\ UNCHANGED pc
               ELSE IF ar.i < 3
               THEN ar' = [ar EXCEPT !.wait_count = @ + 1, !.i = @ + 1]
                    /\ Goto(Loop, "ar_for")
               ELSE ar' = [ar EXCEPT !.wait_count = @ + 1]
                    /\ Goto(Loop, "ar_park")
    /\ join_left' = IF stop_pc = "joining" /\ join_left > 0 THEN join_left - 1
                    ELSE join_left
    /\ lastFrame' = NoFrame
    /\ lastUpdate' = NoUpdate
    /\ lastStatus' = NoStatus
    /\ UNCHANGED <<config, rotator, trackVars, upd, tick_armed, w_success, starts, spawned, stops, joins, gs_closed,
                   pelco_closed, stop_pc, running, pelco_lock, inbox, now,
                   current_time, manual_move_expire, cmd, response,
                   curr_az_raw, w_plan, q_az, q_el, sel_req, tick_due,
                   tick_stops>>

\* if self.is_returning: set_angle(80, 0x4D); then the finally clause
auto_return_park ==
    /\ pc[Loop] = "ar_park"
    /\ IF is_returning
       THEN /\ pelco_lock = Free
            /\ lastFrame' = Frame(Loop, "set", "0x4D", handle_elevation(config, 8000),
                                  "auto_return", Loop, NoPlan)
       ELSE lastFrame' = NoFrame
    /\ AutoReturnExit
    /\ lastUpdate' = NoUpdate
    /\ lastStatus' = NoStatus
    /\ UNCHANGED <<config, rotator, trackVars, upd, tick_armed, w_success, lifeVars, running, pelco_lock, inbox, now,
                   current_time, manual_move_expire, cmd, response, curr_az_raw,
                   w_plan, q_az, q_el, sel_req, tick_due, tick_stops>>

(***************************************************************************)
(* select_angle, calibrate_turns and the manual-jog buttons                *)
(***************************************************************************)
\* select_angle(angle, set_cmd): Thread(target=_worker).start()
select_angle ==
    /\ running
    /\ pc[Sel] = "idle"
    /\ ActiveCallers < MaxCallers
    /\ \E req \in SelRequests : sel_req' = req
    /\ Goto(Sel, "sel_set")
    /\ lastFrame' = NoFrame
    /\ lastUpdate' = NoUpdate
    /\ lastStatus' = NoStatus
    /\ UNCHANGED <<config, rotator, trackVars, upd, tick_armed, w_success, lifeVars, running, pelco_lock, inbox, now,
                   current_time, last_action_time, manual_move_expire,
                   is_returning, cmd, response, curr_az_raw, w_plan, q_az,
                   q_el, ar, tick_due, tick_stops>>

\* _worker: with self.pelco_lock: set_angle(angle, set_cmd); the refresh
\* follows an azimuth set only
select_angle_worker ==
    /\ pc[Sel] = "sel_set"
    /\ pelco_lock = Free
    /\ LET value == IF sel_req.set_cmd = "0x4B" THEN handle_azimuth(sel_req.angle)
                    ELSE handle_elevation(config, sel_req.angle)
       IN  lastFrame' = IF value = None THEN NoFrame
                        ELSE Frame(Sel, "set", sel_req.set_cmd, value,
                                   "select_angle", Sel, NoPlan)
    /\ IF sel_req.set_cmd = "0x4B"
       THEN Goto(Sel, "q_send") /\ UNCHANGED sel_req
       ELSE Goto(Sel, "idle") /\ sel_req' = NoReq
    /\ lastUpdate' = NoUpdate
    /\ lastStatus' = NoStatus
    /\ UNCHANGED <<config, rotator, trackVars, upd, tick_armed, w_success, lifeVars, running, pelco_lock, inbox, now,
                   current_time, last_action_time, manual_move_expire,
                   is_returning, cmd, response, curr_az_raw, w_plan, q_az, q_el,
                   ar, tick_due, tick_stops>>

\* calibrate_turns(turns): with self.pelco_lock: rotator.calibrate_turns(turns);
\* the refresh follows
calibrate_turns ==
    /\ pc[Cal] = "idle"
    /\ ActiveCallers < MaxCallers
    /\ pelco_lock = Free
    /\ \E turns \in {-1, 1} :
         /\ Abs(rot_calibrate_turns(rotator, turns).current_true_az) <= MaxTrueAz
         /\ rotator' = rot_calibrate_turns(rotator, turns)
    /\ Goto(Cal, "q_send")
    /\ lastFrame' = NoFrame
    /\ lastUpdate' = Update(Cal, Cal)
    /\ lastStatus' = NoStatus
    /\ UNCHANGED <<config, trackVars, upd, tick_armed, w_success, lifeVars, running, pelco_lock, inbox, now,
                   current_time, last_action_time, manual_move_expire,
                   is_returning, cmd, response, curr_az_raw, w_plan, q_az,
                   q_el, ar, sel_req, tick_due, tick_stops>>

\* MainWindow._manual_loop and _stop_manual_move: control_system.pelco.move(...)
\* called on the Tk thread
manual_loop ==
    /\ running
    /\ \E direction \in {"up", "stop"} :
         lastFrame' = Frame(Gui, "move", direction, 0, "gui", pelco_lock, NoPlan)
    /\ lastUpdate' = NoUpdate
    /\ lastStatus' = NoStatus
    /\ UNCHANGED <<config, rotator, trackVars, upd, tick_armed, w_success, lifeVars, running, pc, pelco_lock, inbox, now,
                   current_time, last_action_time, manual_move_expire,
                   is_returning, cmd, response, curr_az_raw, w_plan, q_az, q_el,
                   ar, sel_req, tick_due, tick_stops>>

\* The gateway under concurrent callers: the loop worker serving the GS-232
\* client, a select_angle worker, a calibrate_turns caller and the manual-jog
\* buttons.  The clock stands still, so no timer expires.
Next ==
    \/ Deliver
    \/ start
    \/ run_top
    \/ handle_manual_gui_command
    \/ handle_stop
    \/ run_watchdog
    \/ run_idlecheck
    \/ control_query_send
    \/ control_query_recv
    \/ control_set_az
    \/ control_set_el
    \/ \E t \in Workers : query_send(t)
    \/ \E t \in Workers : query_az_recv(t)
    \/ \E t \in Workers : query_el_recv(t)
    \/ \E t \in Workers : query_update(t)
    \/ select_angle
    \/ select_angle_worker
    \/ calibrate_turns
    \/ manual_loop

Spec == Init /\ [][Next]_vars

\* The loop worker alone with the GS-232 client and the clock: the dead-man
\* timer and auto-return.
NextLoop ==
    \/ Tick
    \/ Deliver
    \/ start
    \/ run_top
    \/ handle_manual_gui_command
    \/ handle_stop
    \/ run_watchdog
    \/ run_idlecheck
    \/ control_query_send
    \/ control_query_recv
    \/ control_set_az
    \/ control_set_el
    \/ query_send(Loop)
    \/ query_az_recv(Loop)
    \/ query_el_recv(Loop)
    \/ query_update(Loop)
    \/ auto_return_query_send
    \/ auto_return_query_recv
    \/ auto_return_waypoint
    \/ auto_return_wait
    \/ auto_return_park

SpecLoop == Init /\ [][NextLoop]_vars

(***************************************************************************)
(* The life of a ControlSystem: construction, start(), stop(), the end of  *)
(* the loop worker, and exceptions in the worker's steps.                  *)
(***************************************************************************)
\* start() and stop() calls followed
MaxStarts == 2
MaxStops == 2

\* self.thread.join(timeout=5), in seconds
JoinTimeout == 5

\* self.thread.is_alive()
ThreadAlive == pc[Loop] \notin {"new", "done", "dead"}

\* start() on a system that is running (start() after a stop() is not
\* followed)
start_again ==
    /\ running
    /\ starts < MaxStarts
    /\ starts' = starts + 1
    /\ running' = TRUE
    /\ spawned' = spawned + start_spawns(running)
    /\ lastFrame' = NoFrame
    /\ lastUpdate' = NoUpdate
    /\ lastStatus' = NoStatus
    /\ UNCHANGED <<stops, joins, gs_closed, pelco_closed, stop_pc, join_left>>
    /\ UNCHANGED <<config, rotator, trackVars, upd, tick_armed, w_success, pc, pelco_lock, inbox, now,
                   current_time, last_action_time, manual_move_expire,
                   is_returning, cmd, response, curr_az_raw, w_plan, q_az,
                   q_el, ar, sel_req, tick_due, tick_stops>>

\* start() once stop() has cleared running: self.running = True, and
\* self.thread.start() on the one Thread object __init__ created, which has
\* been started before, raises RuntimeError: no worker is spawned.  A worker
\* that has not yet seen running false goes on looping.
start_after_stop ==
    /\ ~running
    /\ pc[Loop] # "new"
    /\ starts < MaxStarts
    /\ starts' = starts + 1
    /\ running' = TRUE
    /\ spawned' = spawned
    /\ lastFrame' = NoFrame
    /\ lastUpdate' = NoUpdate
    /\ lastStatus' = NoStatus
    /\ UNCHANGED <<stops, joins, gs_closed, pelco_closed, stop_pc, join_left>>
    /\ UNCHANGED <<config, rotator, trackVars, upd, tick_armed, w_success, pc, pelco_lock, inbox, now,
                   current_time, last_action_time, manual_move_expire,
                   is_returning, cmd, response, curr_az_raw, w_plan, q_az,
                   q_el, ar, sel_req, tick_due, tick_stops>>

\* while self.running: the test fails and _run returns
run_exit ==
    /\ pc[Loop] = "top"
    /\ ~loop_test(running)
    /\ Goto(Loop, "done")
    /\ lastFrame' = NoFrame
    /\ lastUpdate' = NoUpdate
    /\ lastStatus' = NoStatus
    /\ UNCHANGED <<config, rotator, trackVars, upd, tick_armed, w_success, lifeVars, running, pelco_lock,
                   inbox, now, current_time, last_action_time,
                   manual_move_expire, is_returning, cmd, response, curr_az_raw,
                   w_plan, q_az, q_el, ar, sel_req, tick_due, tick_stops>>

\* stop() on a started system: self.running = False; self.gs232b.close()
stop_begin ==
    /\ starts >= 1
    /\ stop_pc = "idle"
    /\ stops < MaxStops
    /\ running' = FALSE
    /\ gs_closed' = TRUE
    /\ stop_pc' = "close_pelco"
    /\ lastFrame' = NoFrame
    /\ lastUpdate' = NoUpdate
    /\ lastStatus' = NoStatus
    /\ UNCHANGED <<starts, spawned, stops, joins, pelco_closed, join_left>>
    /\ UNCHANGED <<config, rotator, trackVars, upd, tick_armed, w_success, pc, pelco_lock, inbox, now,
                   current_time, last_action_time, manual_move_expire,
                   is_returning, cmd, response, curr_az_raw, w_plan, q_az,
                   q_el, ar, sel_req, tick_due, tick_stops>>

\* stop() leaving the Pelco transport as it is
stop_pelco_left_open == pelco_closed

\* with self.pelco_lock: if self.pelco and self.pelco.hw:
\* self.pelco.hw.close(): the transport is closed when the block ends
stop_pelco_closed == TRUE

\* Transport.send on a channel that close() has closed carries nothing
\* (nothing is NoFrame or NoResp); on an open one it carries data
transport_send(closed, data, nothing) == IF closed THEN nothing ELSE data

\* stop(): with self.pelco_lock: self.pelco.hw.close(); then
\* if self.thread.is_alive(): self.thread.join(timeout=5) begins
stop_close_pelco ==
    /\ stop_pc = "close_pelco"
    /\ pelco_lock = Free
    /\ pelco_closed' = stop_pelco_closed
    /\ IF ThreadAlive
       THEN /\ joins' = joins + 1
            /\ join_left' = JoinTimeout
            /\ stop_pc' = "joining"
            /\ stops' = stops
       ELSE /\ stops' = stops + 1
            /\ stop_pc' = "idle"
            /\ UNCHANGED <<joins, join_left>>
    /\ lastFrame' = NoFrame
    /\ lastUpdate' = NoUpdate
    /\ lastStatus' = NoStatus
    /\ UNCHANGED <<starts, spawned, gs_closed>>
    /\ UNCHANGED <<config, rotator, trackVars, upd, tick_armed, w_success, running, pc, pelco_lock, inbox,
                   now, current_time, last_action_time, manual_move_expire,
                   is_returning, cmd, response, curr_az_raw, w_plan, q_az,
                   q_el, ar, sel_req, tick_due, tick_stops>>

\* stop(): the join returns, because the worker has ended or the five
\* seconds are over, and stop() returns
stop_join ==
    /\ stop_pc = "joining"
    /\ ~ThreadAlive \/ join_left = 0
    /\ stops' = stops + 1
    /\ stop_pc' = "idle"
    /\ join_left' = 0
    /\ lastFrame' = NoFrame
    /\ lastUpdate' = NoUpdate
    /\ lastStatus' = NoStatus
    /\ UNCHANGED <<starts, spawned, joins, gs_closed, pelco_closed>>
    /\ UNCHANGED <<config, rotator, trackVars, upd, tick_armed, w_success, running, pc, pelco_lock, inbox,
                   now, current_time, last_action_time, manual_move_expire,
                   is_returning, cmd, response, curr_az_raw, w_plan, q_az,
                   q_el, ar, sel_req, tick_due, tick_stops>>

\* hw.send raises inside a Pelco call of the loop worker (a transport
\* failure).  _handle_manual_gui_command catches it and returns ""; out of
\* _handle_stop it reaches the except of _run, which logs it; in
\* _perform_auto_return the except logs it and the finally clears
\* is_returning; the watchdog's move('stop') is outside every try, so the
\* exception leaves _run and the worker thread ends.
pelco_send_raises ==
    /\ pelco_lock = Free
    /\ \/ /\ pc[Loop] = "m_exec"
          /\ response' = Resp("")
          /\ Goto(Loop, "watchdog")
          /\ UNCHANGED <<is_returning, last_action_time, ar>>
       \/ /\ pc[Loop] = "s_exec"
          /\ Goto(Loop, "watchdog")
          /\ UNCHANGED <<response, is_returning, last_action_time, ar>>
       \/ /\ pc[Loop] = "watchdog"
          /\ WatchdogDue
          /\ Goto(Loop, "dead")
          /\ UNCHANGED <<response, is_returning, last_action_time, ar>>
       \/ /\ pc[Loop] \in {"ar_q_send", "ar_for", "ar_park"}
          /\ is_returning
          /\ AutoReturnExit
          /\ UNCHANGED response
    /\ lastFrame' = NoFrame
    /\ lastUpdate' = NoUpdate
    /\ lastStatus' = NoStatus
    /\ UNCHANGED <<config, rotator, trackVars, upd, tick_armed, w_success, lifeVars, running, pelco_lock,
                   inbox, now, current_time, manual_move_expire, cmd,
                   curr_az_raw, w_plan, q_az, q_el, sel_req, tick_due,
                   tick_stops>>

\* configurations a ControlSystem is constructed with, one with inverted
\* elevation limits
LifeConfigs ==
    { DefaultConfig,
      [DefaultConfig EXCEPT !.min_elevation = 20, !.max_elevation = 10] }

\* _init_connections with both transports connected: the PelcoDProtocol is
\* built without a look at the limits, and _update_initial_status catches
\* whatever its query raises; r is what query_angle(0x51) came to
init_connections(cfg, r) ==
    [raised |-> FALSE,
     rotator |-> IF r \in {None, Raised} THEN RotatorInit
                 ELSE update_raw_angle(RotatorInit, cfg, r)]

InitLife ==
    /\ \E cfg \in LifeConfigs :
         \E r \in query_angle(cfg, {apply_angle_correction(cfg, 30000, "0x51")}) :
           /\ ~init_connections(cfg, r).raised
           /\ config = cfg
           /\ rotator = init_connections(cfg, r).rotator
    /\ samples = << >>
    /\ trues = << >>
    /\ plan = NoPlan
    /\ codec = NoCodec
    /\ InitSystem

\* start(), stop() and the worker's loop with its auto-return, no commands
NextLife ==
    \/ Tick
    \/ start
    \/ start_again
    \/ stop_begin
    \/ stop_close_pelco
    \/ stop_join
    \/ run_top
    \/ run_exit
    \/ run_watchdog
    \/ run_idlecheck
    \/ auto_return_query_send
    \/ auto_return_query_recv
    \/ auto_return_waypoint
    \/ auto_return_wait
    \/ auto_return_park

SpecLife == InitLife /\ [][NextLife]_vars

\* the life cycle with start() called again after stop()
NextRestart ==
    \/ Tick
    \/ start
    \/ start_again
    \/ start_after_stop
    \/ stop_begin
    \/ stop_close_pelco
    \/ stop_join
    \/ run_top
    \/ run_exit
    \/ run_watchdog
    \/ run_idlecheck
    \/ auto_return_query_send
    \/ auto_return_query_recv
    \/ auto_return_waypoint
    \/ auto_return_wait
    \/ auto_return_park

SpecRestart == InitLife /\ [][NextRestart]_vars

StopCommandTexts == {"W100 45"}

DeliverStop == DeliverFrom({ Command(t) : t \in StopCommandTexts })

\* a step of the loop worker
WorkerStep ==
    \/ run_top
    \/ run_exit
    \/ run_watchdog
    \/ run_idlecheck
    \/ control_query_send
    \/ control_query_recv
    \/ control_set_az
    \/ control_set_el
    \/ auto_return_query_send
    \/ auto_return_query_recv
    \/ auto_return_waypoint
    \/ auto_return_wait
    \/ auto_return_park

\* stop() against a worker that polls, runs angle-control commands and
\* auto-returns
NextStop ==
    \/ Tick
    \/ DeliverStop
    \/ start
    \/ stop_begin
    \/ stop_close_pelco
    \/ stop_join
    \/ WorkerStep

\* stop() against the loop worker and a detached select_angle worker
NextAfterStop ==
    \/ Tick
    \/ DeliverStop
    \/ start
    \/ stop_begin
    \/ stop_close_pelco
    \/ stop_join
    \/ WorkerStep
    \/ select_angle
    \/ select_angle_worker
    \/ query_send(Sel)
    \/ query_az_recv(Sel)
    \/ query_el_recv(Sel)
    \/ query_update(Sel)

SpecAfterStop == InitLife /\ [][NextAfterStop]_vars

\* the worker thread is scheduled again and again: its reads and sleeps are
\* bounded, and the Pelco lock it waits for is held by stop() for one close
SpecStopFair == InitLife /\ [][NextStop]_vars /\ WF_vars(WorkerStep)

FaultCommandTexts == {"M_up", "S", "C2"}

DeliverFault == DeliverFrom({ Command(t) : t \in FaultCommandTexts })

\* the loop worker with commands, the clock, and transport failures
NextFault ==
    \/ Tick
    \/ DeliverFault
    \/ start
    \/ run_top
    \/ handle_manual_gui_command
    \/ handle_stop
    \/ run_watchdog
    \/ run_idlecheck
    \/ query_send(Loop)
    \/ query_az_recv(Loop)
    \/ query_el_recv(Loop)
    \/ query_update(Loop)
    \/ auto_return_query_send
    \/ auto_return_query_recv
    \/ auto_return_waypoint
    \/ auto_return_wait
    \/ auto_return_park
    \/ pelco_send_raises

SpecFault == InitLife /\ [][NextFault]_vars

\* The gateway under concurrent callers, constructed with either
\* configuration of LifeConfigs.
SpecCtl == InitLife /\ [][Next]_vars

LockCommandTexts == {"C2", "W100 45"}

DeliverLock == DeliverFrom({ Command(t) : t \in LockCommandTexts })

\* every thread that takes a lock: the loop worker with its queries and
\* angle-control commands, the select_angle worker, calibrate_turns and
\* stop(); the clock stands still
NextLocks ==
    \/ DeliverLock
    \/ start
    \/ run_top
    \/ run_exit
    \/ run_watchdog
    \/ run_idlecheck
    \/ control_query_send
    \/ control_query_recv
    \/ control_set_az
    \/ control_set_el
    \/ \E t \in Workers : query_send(t)
    \/ \E t \in Workers : query_az_recv(t)
    \/ \E t \in Workers : query_el_recv(t)
    \/ \E t \in Workers : query_update(t)
    \/ select_angle
    \/ select_angle_worker
    \/ calibrate_turns
    \/ stop_begin
    \/ stop_close_pelco
    \/ stop_join

SpecLocks == InitLife /\ [][NextLocks]_vars

RaceCommandTexts == {"C2"}

DeliverRace == DeliverFrom({ Command(t) : t \in RaceCommandTexts })

\* the angle queries of the loop worker, of select_angle and of
\* calibrate_turns with the tracker update either in one piece or statement
\* by statement, and calibrate_turns
NextRace ==
    \/ DeliverRace
    \/ start
    \/ run_top
    \/ run_watchdog
    \/ run_idlecheck
    \/ \E t \in Workers : query_send(t)
    \/ \E t \in Workers : query_az_recv(t)
    \/ \E t \in Workers : query_el_recv(t)
    \/ \E t \in Workers : query_update(t)
    \/ \E t \in Workers : update_read(t)
    \/ \E t \in Workers : update_add(t)
    \/ \E t \in Workers : update_last(t)
    \/ select_angle
    \/ select_angle_worker
    \/ calibrate_turns

SpecRace == Init /\ [][NextRace]_vars

\* The loop worker alone with the wider command set; the clock stands still.
NextCmd ==
    \/ DeliverAny
    \/ start
    \/ run_top
    \/ handle_manual_gui_command
    \/ handle_stop
    \/ run_watchdog
    \/ run_idlecheck
    \/ control_query_send
    \/ control_query_recv
    \/ control_set_az
    \/ control_set_el
    \/ query_send(Loop)
    \/ query_az_recv(Loop)
    \/ query_el_recv(Loop)
    \/ query_update(Loop)

SpecCmd == Init /\ [][NextCmd]_vars

(***************************************************************************)
(* Checking the tracker alone: a sequence of raw samples is fed to         *)
(* update_raw_angle of a freshly constructed RotationManager.              *)
(***************************************************************************)
MaxSamples == 3

\* raw azimuth samples in centidegrees: both sides of the 0/360 wrap, steps
\* below, at and above half a revolution
TrackerSamples == {0, 1000, 3000, 9000, 17000, 19000, 27000, 35000}

InitTracker ==
    /\ config \in Configs
    /\ rotator = RotatorInit
    /\ samples = << >>
    /\ trues = << >>
    /\ plan = NoPlan
    /\ codec = NoCodec
    /\ InitSystem

TrackerSample ==
    /\ Len(samples) < MaxSamples
    /\ \E raw_az \in TrackerSamples :
         /\ rotator' = update_raw_angle(rotator, config, raw_az)
         /\ samples' = Append(samples, raw_az)
         /\ trues' = Append(trues, rotator'.current_true_az)
    /\ UNCHANGED <<config, plan, codec, sysVars>>

NextTracker == TrackerSample

SpecTracker == InitTracker /\ [][NextTracker]_vars

(***************************************************************************)
(* Checking the path from the wire to the tracker: query_angle(0x51)       *)
(* corrects the device's reading and its caller hands the result to        *)
(* update_raw_angle.                                                       *)
(***************************************************************************)
\* angle_correction sections with and without offsets
OffsetConfigs ==
    { [DefaultConfig EXCEPT !.azimuth_offset = o, !.initial_azimuth = i] :
        o \in {0, 10, -20}, i \in {0, 5} }

InitOffset ==
    /\ config \in OffsetConfigs
    /\ rotator = RotatorInit
    /\ samples = << >>
    /\ trues = << >>
    /\ plan = NoPlan
    /\ codec = NoCodec
    /\ InitSystem

\* azimuth = self.pelco.query_angle(0x51) with the device answering raw_az;
\* self.rotator.update_raw_angle(azimuth / 100.0)
WireSample ==
    /\ Len(samples) < MaxSamples
    /\ \E raw_az \in TrackerSamples :
         /\ rotator' = update_raw_angle(rotator, config,
                          apply_angle_correction(config, raw_az, "0x51"))
         /\ samples' = Append(samples, raw_az)
         /\ trues' = Append(trues, rotator'.current_true_az)
    /\ UNCHANGED <<config, plan, codec, sysVars>>

NextOffset == WireSample

SpecOffset == InitOffset /\ [][NextOffset]_vars

(***************************************************************************)
(* Checking the planner alone: get_target_plan on a tracker holding any    *)
(* of a set of true azimuths, for any of a set of requested azimuths.      *)
(***************************************************************************)
\* true azimuths (centidegrees) the tracker may hold: several revolutions
PlanCurrents == {-30000, -16000, 0, 5, 1000, 17995, 18000, 30000, 35000, 40000}

\* requested azimuths (float(parts[0]) of a W command, in centidegrees)
PlanTargets == {-1000, 0, 1000, 4000, 17985, 17990, 17995, 18000, 18005,
                18010, 18015, 19000, 20000, 35990, 36000, 40000}

InitPlan ==
    /\ config \in Configs
    /\ rotator \in { [current_true_az |-> c, last_raw_az |-> c % Rev,
                      initialized |-> TRUE] : c \in PlanCurrents }
    /\ samples = << >>
    /\ trues = << >>
    /\ plan = NoPlan
    /\ codec = NoCodec
    /\ InitSystem

PlanRequest ==
    /\ \E target_req_az \in PlanTargets :
         plan' = [req |-> target_req_az,
                  out |-> get_target_plan(rotator, config, target_req_az)]
    /\ UNCHANGED <<config, rotator, samples, trues, codec, sysVars>>

NextPlan == PlanRequest

SpecPlan == InitPlan /\ [][NextPlan]_vars

(***************************************************************************)
(* Checking the Pelco-D codec alone: the encoder and the validator on      *)
(* frames built from sample bytes, and the elevation mapping out and back. *)
(***************************************************************************)
\* configurations of the elevation range, the last one with inverted limits
CodecConfigs ==
    { DefaultConfig,
      [DefaultConfig EXCEPT !.min_elevation = -10],
      [DefaultConfig EXCEPT !.min_elevation = 10],
      [DefaultConfig EXCEPT !.min_elevation = 20, !.max_elevation = 10] }

\* command and data bytes: both ends, a query code, sums that pass 255
ByteSamples == {0, 81, 128, 255}

\* logical elevations in centidegrees
ElevationSamples == {-1000, -500, -1, 0, 500, 999, 1000, 2000, 9000}

InitCodec ==
    /\ config \in CodecConfigs
    /\ rotator = RotatorInit
    /\ samples = << >>
    /\ trues = << >>
    /\ plan = NoPlan
    /\ codec = NoCodec
    /\ InitSystem

\* validate(encode(...))
CodecFrame ==
    /\ \E c1 \in ByteSamples, c2 \in ByteSamples, d1 \in ByteSamples, d2 \in ByteSamples :
         LET packet == generate_packet(c1, c2, d1, d2)
         IN  codec' = [kind |-> "frame", args |-> <<c1, c2, d1, d2>>,
                       packet |-> packet,
                       valid |-> validate_response(config, packet)]
    /\ UNCHANGED <<config, rotator, samples, trues, plan, sysVars>>

\* set_angle(e, 0x4D), then the device's position read back by query_angle(0x53)
CodecElevation ==
    /\ \E e \in ElevationSamples :
         /\ config.min_elevation * 100 <= e
         /\ e <= config.max_elevation * 100
         /\ LET wire == handle_elevation(config, e)
            IN  codec' = [kind |-> "elevation", e |-> e, wire |-> wire,
                          back |-> apply_angle_correction(config, wire, "0x53")]
    /\ UNCHANGED <<config, rotator, samples, trues, plan, sysVars>>

NextCodec == CodecFrame \/ CodecElevation

SpecCodec == InitCodec /\ [][NextCodec]_vars

(***************************************************************************)
(* Checking query_angle alone: one exchange against a transport that has   *)
(* stale chunks waiting, accepts or refuses the send, and then hands back  *)
(* a sequence of responses.                                                *)
(***************************************************************************)
\* flush_limit = 10
FlushLimit == 10

\* max_retries = 3
max_retries == 3

\* the command byte of a query
QueryCode(query_cmd) == IF query_cmd = "0x51" THEN 81 ELSE 83

\* the drain loop: while flush_limit > 0 and self.hw.recv(...); the number of
\* recv calls it makes when `pending` chunks are waiting
drain_reads(pending) == IF pending < FlushLimit THEN pending + 1 ELSE FlushLimit

RECURSIVE read_loop(_, _, _, _, _)
\* for _ in range(max_retries), from the i-th read on: the value returned
\* (None when the loop runs out, Raised when the validator raises) and the
\* number of reads made
read_loop(cfg, packet, query_cmd, reads, i) ==
    IF i > max_retries THEN [result |-> None, reads |-> max_retries]
    ELSE LET resp == reads[i]
         IN  IF resp = << >> \/ resp = packet
             THEN read_loop(cfg, packet, query_cmd, reads, i + 1)
             ELSE IF Len(resp) # 7
             THEN read_loop(cfg, packet, query_cmd, reads, i + 1)
             ELSE IF validate_response(cfg, resp) = "ValueError"
             THEN [result |-> Raised, reads |-> i]
             ELSE IF validate_response(cfg, resp) = "True"
             THEN [result |-> apply_angle_correction(
                                  cfg, resp[5] * 256 + resp[6], query_cmd),
                   reads |-> i]
             ELSE read_loop(cfg, packet, query_cmd, reads, i + 1)

\* query_angle(query_cmd) against the transport: what it returns and how many
\* drain reads, sends and response reads it made
query_angle_reads(cfg, query_cmd, pending, send_ok, reads) ==
    LET packet == generate_packet(0, QueryCode(query_cmd), 0, 0)
        loop   == read_loop(cfg, packet, query_cmd, reads, 1)
    IN  IF ~send_ok
        THEN [result |-> None, drains |-> drain_reads(pending), sends |-> 1,
              reads |-> 0]
        ELSE [result |-> loop.result, drains |-> drain_reads(pending),
              sends |-> 1, reads |-> loop.reads]

\* stale chunks waiting in the receive buffer, at most
MaxPending == 11

PendingSamples == {0, 9, 10, MaxPending}

\* a device answer carrying the wire value 30000, and the same with one
\* checksum bit wrong
GoodFrame(query_cmd) == generate_packet(0, QueryCode(query_cmd) + 8, 117, 48)
BadFrame(query_cmd) == [GoodFrame(query_cmd) EXCEPT ![7] = (@ + 1) % 256]

\* what a recv(7) may hand back: nothing, the echo of the query, a short
\* chunk, a frame with a wrong checksum, a good frame
ResponseSamples(query_cmd) ==
    { << >>, generate_packet(0, QueryCode(query_cmd), 0, 0), <<255, 1, 0>>,
      BadFrame(query_cmd), GoodFrame(query_cmd) }

\* the transport holds four responses, one more than query_angle may read
QueryExchange ==
    /\ codec = NoCodec
    /\ \E query_cmd \in {"0x51", "0x53"}, pending \in PendingSamples,
          send_ok \in BOOLEAN :
         \E reads \in [1..(max_retries + 1) -> ResponseSamples(query_cmd)] :
           codec' = [kind |-> "query", query_cmd |-> query_cmd,
                     pending |-> pending, send_ok |-> send_ok, reads |-> reads,
                     out |-> query_angle_reads(config, query_cmd, pending,
                                               send_ok, reads)]
    /\ UNCHANGED <<config, rotator, samples, trues, plan, sysVars>>

NextQuery == QueryExchange

SpecQuery == InitCodec /\ [][NextQuery]_vars

(***************************************************************************)
(* Properties of the gateway                                               *)
(***************************************************************************)

\* C1: every frame handed to the Pelco transport is sent by a thread that
\* holds pelco_lock, and never while another thread is between the send and
\* the read of its own exchange.
C1_EveryFrameUnderLock ==
    lastFrame # NoFrame =>
        (lastFrame.holder = lastFrame.by /\ ~lastFrame.overlap)

\* C2: every call of update_raw_angle or calibrate_turns that changes the
\* rotator state is made by a thread that holds pelco_lock.
C2_MutationsUnderLock ==
    lastUpdate # NoUpdate => lastUpdate.holder = lastUpdate.by

\* C3: an azimuth-set frame is sent only by a path that computed, from a fresh
\* azimuth sample, a target plan for that target and found it safe.
C3_AzimuthSetOnlyAfterSafePlan ==
    (lastFrame # NoFrame /\ lastFrame.kind = "set" /\ lastFrame.code = "0x4B") =>
        /\ lastFrame.plan # NoPlan
        /\ lastFrame.plan.out.is_safe
        /\ lastFrame.plan.req % Rev = lastFrame.value

\* C4: once a command has arrived during a waypoint wait of auto-return, the
\* park sequence aborts before that wait completes: it neither goes on to a
\* later waypoint or to the park step, nor sends another set frame.
C4_TrafficCancelsAutoReturn ==
    (inbox # NoMsg /\ inbox.wp > 0) =>
        /\ ~(pc[Loop] = "ar_for" /\ ar.i > inbox.wp)
        /\ pc[Loop] # "ar_park"
        /\ ~(lastFrame # NoFrame /\ lastFrame.src = "auto_return"
             /\ lastFrame.kind = "set")

\* the tick received a manual command that had arrived before the timer expired
EarlyManualInTick == cmd # NoMsg /\ cmd.c.op = "M" /\ ~cmd.late

\* the tick received a jog command M_<direction>, direction other than stop
JogInTick == cmd # NoMsg /\ cmd.c.op = "M" /\ cmd.c.dir # "stop"

\* C5 as stated: when no manual command arrived before the armed timer
\* expired, the tick that starts after the expiry sends exactly one move(stop)
\* and leaves manual_move_expire = 0; other ticks send no watchdog stop.
C5_DeadManExactlyOneStop ==
    pc[Loop] = "idlecheck" =>
        /\ (tick_due /\ ~EarlyManualInTick) =>
              (Len(tick_stops) = 1 /\ manual_move_expire = 0)
        /\ ~tick_due =>
              (\A i \in 1..Len(tick_stops) : tick_stops[i] # "watchdog")

\* C5 amended: the tick that starts after the expiry sends exactly one
\* move(stop) and leaves manual_move_expire = 0 unless that tick itself
\* receives a jog command; such a tick re-arms the timer and sends no stop.
\* Ticks that start with the timer unarmed or unexpired send no watchdog stop.
C5_DeadManOneStopUnlessJog ==
    pc[Loop] = "idlecheck" =>
        /\ (tick_due /\ ~JogInTick) =>
              (Len(tick_stops) = 1 /\ manual_move_expire = 0)
        /\ (tick_due /\ JogInTick) =>
              (tick_stops = << >> /\ manual_move_expire > current_time)
        /\ ~tick_due =>
              (\A i \in 1..Len(tick_stops) : tick_stops[i] # "watchdog")

\* a tick that began after the expiry, received nothing, and whose watchdog
\* sent the stop
C5_Witness ==
    /\ pc[Loop] = "idlecheck"
    /\ tick_due
    /\ cmd = NoMsg
    /\ tick_stops = <<"watchdog">>
    /\ manual_move_expire = 0

\* the loop worker takes the step that ends phase 1 of an angle-control command
Phase1Ends == pc[Loop] = "w_q_recv" /\ pc'[Loop] # "w_q_recv"

\* the angle-control command has sent one of its set frames
ControlSetFrame ==
    lastFrame # NoFrame /\ lastFrame.src = "W" /\ lastFrame.kind = "set"

\* C6: when the phase 1 azimuth query returns None, the angle-control command
\* returns the empty response, leaves the rotator state unchanged and is over
\* with the lock released; a set frame of the command is only ever sent after
\* a reading.
C6_NeverMoveBlind ==
    /\ [][ (Phase1Ends /\ curr_az_raw' = None) =>
              /\ response' = Resp("")
              /\ rotator' = rotator
              /\ lastUpdate' = NoUpdate
              /\ lastFrame' = NoFrame
              /\ pelco_lock' = Free
              /\ pc'[Loop] = "watchdog" ]_vars
    /\ [](ControlSetFrame => curr_az_raw # None)

\* an angle-control command has ended on a missing reading
C6_Witness ==
    /\ pc[Loop] = "watchdog"
    /\ cmd # NoMsg /\ cmd.c.op = "W" /\ cmd.c.az # None
    /\ curr_az_raw = None
    /\ response = Resp("")
    /\ pelco_lock = Free

\* C7: when the target plan is unsafe the angle-control command answers
\* exactly "?> \r\n" and is over without a set frame; a W whose arguments do
\* not parse is answered with the empty response, which is a different one;
\* a set frame of the command is only ever sent with a safe plan.
C7_UnsafePlanRejected ==
    /\ [][ (Phase1Ends /\ w_plan' # NoPlan /\ ~w_plan'.out.is_safe) =>
              /\ response' = Resp("?> \r\n")
              /\ response' # Resp("")
              /\ lastFrame' = NoFrame
              /\ pc'[Loop] = "watchdog" ]_vars
    /\ []( (pc[Loop] = "watchdog" /\ cmd # NoMsg /\ cmd.c.op = "W"
            /\ cmd.c.az = None) => response = Resp("") )
    /\ [](ControlSetFrame => (w_plan # NoPlan /\ w_plan.out.is_safe))

\* an angle-control command has been rejected by the limit check
C7_Witness ==
    /\ pc[Loop] = "watchdog"
    /\ cmd # NoMsg /\ cmd.c.op = "W"
    /\ w_plan # NoPlan /\ ~w_plan.out.is_safe
    /\ response = Resp("?> \r\n")

\* _run has received a command in this step
Received == pc[Loop] = "top" /\ inbox # NoMsg /\ pc'[Loop] # "top"

\* the command text has one of the two combined forms
CombinedForm(t) ==
    StartsWith(t, "C2W") \/ (StartsWith(t, "W") /\ EndsWith(t, "C2"))

\* the move body embedded in a combined command
EmbeddedBody(t) ==
    IF StartsWith(t, "C2W") THEN SubSeq(t, 4, Len(t)) ELSE SubSeq(t, 2, Len(t) - 2)

\* the loop starts the angle-control command on the numbers of body, or
\* answers with the empty response when body does not parse
RunsControlOn(body) ==
    LET fs == split_floats(body)
    IN  IF Len(fs) >= 2
        THEN pc'[Loop] = "w_q_send" /\ cmd'.c.az = fs[1] /\ cmd'.c.el = fs[2]
        ELSE pc'[Loop] = "watchdog" /\ response' = Resp("") /\ lastFrame' = NoFrame

\* C13: dispatch is first-match-wins in the order M_, combined, C2, W, S,
\* \set_pos: a text starting with C2W, or starting with W and ending with C2,
\* goes to the combined handler (angle-control on the embedded body), never to
\* the bare C2 handler (the angle query) or the bare W handler (angle-control
\* on everything after the W); a text matching no prefix gets the empty
\* response and no Pelco frame.
C13_DispatchPrecedence ==
    /\ [][ Received =>
             LET t == inbox.c.text
             IN  IF StartsWith(t, "M_") THEN pc'[Loop] = "m_exec"
                 ELSE IF CombinedForm(t)
                 THEN pc'[Loop] # "q_send" /\ RunsControlOn(EmbeddedBody(t))
                 ELSE IF StartsWith(t, "C2") THEN pc'[Loop] = "q_send"
                 ELSE IF StartsWith(t, "W")
                 THEN RunsControlOn(Strip(SubSeq(t, 2, Len(t))))
                 ELSE IF StartsWith(t, "S") THEN pc'[Loop] = "s_exec"
                 ELSE IF StartsWith(t, "\\set_pos")
                 THEN pc'[Loop] \in {"w_q_send", "watchdog"}
                 ELSE /\ pc'[Loop] = "watchdog"
                      /\ response' = Resp("")
                      /\ lastFrame' = NoFrame ]_vars
    /\ []( (cmd # NoMsg /\ cmd.c.op = "") =>
             (lastFrame = NoFrame \/ lastFrame.by # Loop) )

\* a W...C2 command has been dispatched to angle-control on its embedded body
C13_Witness ==
    /\ pc[Loop] = "w_q_send"
    /\ cmd # NoMsg /\ cmd.c.text = "W100 45C2"
    /\ cmd.c.az = 10000 /\ cmd.c.el = 4500

\* the numbers of the \set_pos command received in this tick (<< >>: no parse)
SetPosNumbers == split_floats(Strip(SubSeq(cmd.c.text, 9, Len(cmd.c.text))))

\* the loop is inside the angle-control command
InControl == pc[Loop] \in {"w_q_send", "w_q_recv", "w_set_az", "w_set_el"}

\* the loop is inside the angle-query command
InQuery == pc[Loop] \in {"q_send", "q_az_recv", "q_el_recv", "q_update"}

\* the handling of the received command is over
Handled == pc[Loop] \in {"watchdog", "idlecheck"}

\* C14: a \set_pos with a negative elevation is rejected silently (empty
\* response, no Pelco query or set frame); one with a non-negative elevation
\* runs the angle-control path on both values rounded to integers.
C14_SetPosNegativeElevationRejected ==
    (cmd # NoMsg /\ cmd.c.op = "set_pos" /\ Len(SetPosNumbers) = 2) =>
        IF SetPosNumbers[2] < 0
        THEN /\ ~InControl
             /\ ~(lastFrame # NoFrame /\ lastFrame.by = Loop)
             /\ Handled => response = Resp("")
        ELSE /\ cmd.c.az = round(SetPosNumbers[1])
             /\ cmd.c.el = round(SetPosNumbers[2])
             /\ cmd.c.az % 100 = 0 /\ cmd.c.el % 100 = 0
             /\ Handled => response.text \in {"ACK\r\n", "?> \r\n", ""}

\* the angle-control command embedded in the combined command of this tick
\* has failed: parse error, no azimuth reading, or soft-limit rejection
ControlFailed ==
    \/ cmd.c.az = None
    \/ ~InControl /\ curr_az_raw = None
    \/ w_plan # NoPlan /\ ~w_plan.out.is_safe

\* C15: for a combined command the angle query is made and its response
\* returned only when the embedded angle-control succeeded; when it failed,
\* no query follows and the response is empty.
C15_CombinedQueryOnlyOnSuccess ==
    (cmd # NoMsg /\ cmd.c.op = "C2W" /\ ControlFailed) =>
        /\ ~InQuery
        /\ Handled => response = Resp("")

\* C16: every response the loop writes to the GS-232 transport is ACK\r\n,
\* AZ=ddd EL=ddd\r\n or "?> \r\n"; otherwise the response is empty and nothing
\* is written.  S and M_<direction> included.
C16_ResponseForms ==
    (cmd # NoMsg /\ pc[Loop] = "watchdog") =>
        \/ response.text \in {"ACK\r\n", "?> \r\n", ""}
        \/ /\ response.text = "AZ=%03d EL=%03d\r\n"
           /\ response.az \in 0..999 /\ response.el \in 0..999

(***************************************************************************)
(* Properties of the planner                                               *)
(***************************************************************************)

\* C8: with soft limits (-360, 360) and current_true = 0, a requested target
\* of 400 degrees is rejected (is_safe = FALSE), although 400 mod 360 = 40 is
\* inside the limits.
C8_Target400Rejected ==
    ( /\ plan # NoPlan
      /\ config.min_az = -360 /\ config.max_az = 360
      /\ rotator.current_true_az = 0
      /\ plan.req = 40000 )
    => ~plan.out.is_safe

\* What the claims say get_target_plan returns, with the antipodal case being
\* every diff within tol of half a revolution.
ShortestPathPlan(cur, cfg, req, out, tol) ==
    LET target_norm  == req % Rev
        current_norm == cur % Rev
        diff         == (target_norm - current_norm) % Rev
    IN  /\ (diff < Half - tol) =>
              out.direction = "right" /\ out.target_true = cur + diff
        /\ (diff > Half + tol) =>
              out.direction = "left" /\ out.target_true = cur - (Rev - diff)
        /\ (Abs(diff - Half) <= tol) =>
              /\ out.direction = "right" <=> target_norm > current_norm
              /\ out.direction = "left" <=> ~(target_norm > current_norm)
              /\ out.target_true = IF out.direction = "right"
                                   THEN cur + Half ELSE cur - Half
        /\ Abs(out.target_true - cur) <= Half
        /\ out.is_safe <=> ( cfg.min_az * 100 <= out.target_true
                             /\ out.target_true <= cfg.max_az * 100 )

PlanExamples ==
    /\ ( /\ config.min_az = -360 /\ config.max_az = 360
         /\ rotator.current_true_az = 0 /\ plan.req = 20000 )
       => ( /\ plan.out.direction = "left"
            /\ plan.out.target_true = -16000
            /\ plan.out.is_safe )
    /\ (rotator.current_true_az = 0 /\ plan.req = 18000)
       => plan.out.direction = "right"

\* C9 as stated: the plan is the shortest path, going right with distance diff
\* when diff < 180, left with distance 360 - diff when diff > 180, and using the
\* tie-break (right iff target_norm > current_norm, distance 180) only when
\* diff = 180 exactly.
C9_ShortestPathExactTie ==
    plan # NoPlan =>
        /\ ShortestPathPlan(rotator.current_true_az, config, plan.req, plan.out, 0)
        /\ PlanExamples

\* C9 amended: the tie-break (distance 180, right iff target_norm >
\* current_norm) applies to every diff within 0.1 degree of 180; below that
\* band the plan goes right by diff, above it left by 360 - diff; in all cases
\* |target_true - current_true| <= 180 and is_safe iff min_az <= target_true
\* <= max_az.
C9_ShortestPathWithinTolerance ==
    plan # NoPlan =>
        /\ ShortestPathPlan(rotator.current_true_az, config, plan.req, plan.out,
                            AntipodalTol)
        /\ PlanExamples

\* the exact antipodal case has been planned from current_true = 0
C9_Witness ==
    /\ plan # NoPlan
    /\ rotator.current_true_az = 0
    /\ plan.req = 18000
    /\ plan.out.direction = "right"
    /\ plan.out.target_true = 18000

(***************************************************************************)
(* Properties of the tracker                                               *)
(***************************************************************************)
\* the signed shortest way from raw sample a to raw sample b (defined when
\* they are not half a revolution apart)
SignedStep(a, b) ==
    LET m == (b - a) % Rev IN IF m < Half THEN m ELSE m - Rev

StepBelowHalf(a, b) == (b - a) % Rev # Half

RECURSIVE SumSteps(_, _)
SumSteps(seq, n) ==
    IF n <= 1 THEN 0 ELSE SumSteps(seq, n - 1) + SignedStep(seq[n - 1], seq[n])

\* C10: the first sample seeds current_true_az and last_raw_az; every later
\* sample whose step from the previous one is below 180 degrees changes
\* current_true_az by exactly the signed shortest step, so the true azimuth is
\* the seed plus the sum of the steps; 350 -> 10 -> 30 advances +20 and +20.
C10_UnwrapInvariant ==
    LET n == Len(samples) IN
    /\ n >= 1 =>
         /\ trues[1] = (samples[1] + config.azimuth_offset * 100) % Rev
         /\ rotator.initialized
         /\ rotator.last_raw_az = (samples[n] + config.azimuth_offset * 100) % Rev
         /\ rotator.current_true_az = trues[n]
    /\ \A i \in 2..n :
         StepBelowHalf(samples[i - 1], samples[i]) =>
            trues[i] - trues[i - 1] = SignedStep(samples[i - 1], samples[i])
    /\ (\A i \in 2..n : StepBelowHalf(samples[i - 1], samples[i])) =>
         (n >= 1 => trues[n] = trues[1] + SumSteps(samples, n))
    /\ (n = 3 /\ samples = <<35000, 1000, 3000>>) =>
         (trues[2] = trues[1] + 2000 /\ trues[3] = trues[2] + 2000)

\* the samples 350 -> 10 -> 30 have been fed, crossing the 0/360 wrap
C10_Witness ==
    /\ samples = <<35000, 1000, 3000>>
    /\ trues[3] = trues[1] + 4000

(***************************************************************************)
(* Properties of the Pelco-D codec                                         *)
(***************************************************************************)

\* C11: for every command and data bytes (address 1) the encoder's frame is 7
\* bytes long, starts with 0xFF, carries checksum = sum(bytes 1..5) mod 256
\* and is accepted by the response validator.
C11_ChecksumRoundTrip ==
    codec.kind = "frame" =>
        /\ Len(codec.packet) = 7
        /\ codec.packet[1] = 255
        /\ codec.packet[2] = 1
        /\ codec.packet[7] = (1 + codec.args[1] + codec.args[2]
                                + codec.args[3] + codec.args[4]) % 256
        /\ codec.valid = "True"

\* C12: for every logical elevation e inside [min_elevation, max_elevation],
\* negative e included, the read-side correction of the wire value of the
\* elevation set mapping returns e; min_elevation = -10 maps 5 to 355 and 20
\* to 10.
C12_ElevationRoundTrip ==
    codec.kind = "elevation" =>
        /\ codec.back = codec.e
        /\ (config.min_elevation = -10 /\ codec.e = 500) => codec.wire = 35500
        /\ (config.min_elevation = -10 /\ codec.e = 2000) => codec.wire = 1000

(***************************************************************************)
(* Properties of the life cycle                                            *)
(***************************************************************************)

\* C17: start() is idempotent: however many times start() has been called,
\* exactly one loop worker has been spawned, and a start() on a running
\* system changes nothing of its state.
C17_StartIdempotent ==
    /\ [](starts = 0 => spawned = 0)
    /\ [](starts >= 1 => spawned = 1)
    /\ [][(running /\ starts' = starts + 1) =>
            UNCHANGED <<config, rotator, trackVars, upd, tick_armed, w_success, spawned, stops, joins,
                        gs_closed, pelco_closed, stop_pc, join_left, running,
                        pc, pelco_lock, inbox, now, current_time,
                        last_action_time, manual_move_expire, is_returning,
                        cmd, response, curr_az_raw, w_plan, q_az, q_el, ar,
                        sel_req, tick_due, tick_stops>>]_vars

C17_Witness ==
    /\ starts = 2
    /\ spawned = 1
    /\ running
    /\ stops = 0

\* C18: stop() is idempotent: once a stop() has returned, running is false
\* and both transports are closed, and the worker is joined at most once over
\* all stop() calls, whatever the worker was doing at the first one.
C18_StopIdempotent ==
    /\ stops >= 1 => (~running /\ gs_closed /\ pelco_closed)
    /\ joins <= 1

\* C19: the loop worker ends only after running has been cleared: no
\* exception raised in a step of a tick ends it while running is true.
C19_LoopSurvivesExceptions ==
    pc[Loop] \in {"done", "dead"} => ~running

\* C20: no ControlSystem with inverted elevation limits is running or has a
\* command in processing: its construction raised.
C20_InvertedLimitsFatal ==
    Inverted(config) => (~running /\ starts = 0 /\ cmd = NoMsg)

(***************************************************************************)
(* Properties of the manual commands and the dead-man timer                *)
(***************************************************************************)
\* the tick received the S command
StopInTick == cmd # NoMsg /\ cmd.c.op = "S"

\* the watchdog sends its stop in this step
WatchdogStops == lastFrame' # NoFrame /\ lastFrame'.src = "watchdog"

\* C26: the S command sends one stop frame under the Pelco lock and leaves
\* manual_move_expire = 0 and is_returning false, whatever they were; the
\* tick that handled it sends no watchdog stop, even when the timer had
\* expired, and the watchdog stops only for a timer that is armed.
C26_StopCancelsTimer ==
    /\ [][(pc[Loop] = "s_exec" /\ pc'[Loop] # "s_exec") =>
            /\ lastFrame' = Frame(Loop, "move", "stop", 0, "S", Loop, NoPlan)
            /\ manual_move_expire' = 0
            /\ ~is_returning']_vars
    /\ []((pc[Loop] = "idlecheck" /\ StopInTick) =>
            (tick_stops = <<"S">> /\ manual_move_expire = 0 /\ ~is_returning))
    /\ [][WatchdogStops => (manual_move_expire > 0 /\ ~StopInTick)]_vars

\* S received by a tick that began with the timer expired: one stop, by S
C26_Witness ==
    /\ pc[Loop] = "idlecheck"
    /\ StopInTick
    /\ tick_due
    /\ tick_stops = <<"S">>
    /\ manual_move_expire = 0

\* the tick received M_stop
ManualStopInTick == cmd # NoMsg /\ cmd.c.op = "M" /\ cmd.c.dir = "stop"

\* C27: every M_<direction> other than stop arms the timer 0.5 s ahead of the
\* time it is handled, and the tick that handled it sends no watchdog stop;
\* M_stop sets the timer to 0 and its tick sends no watchdog stop; the
\* watchdog stops only in a tick that began after the expiry and handled no
\* jog, so jogs handled before each expiry keep it from ever stopping.
C27_ManualTimerRefresh ==
    /\ [][(pc[Loop] = "m_exec" /\ pc'[Loop] # "m_exec") =>
            manual_move_expire' = (IF cmd.c.dir = "stop" THEN 0
                                   ELSE now + ManualHold)]_vars
    /\ []((pc[Loop] = "idlecheck" /\ JogInTick) =>
            /\ tick_stops = << >>
            /\ manual_move_expire >= current_time + ManualHold)
    /\ []((pc[Loop] = "idlecheck" /\ ManualStopInTick) =>
            (tick_stops = <<"M">> /\ manual_move_expire = 0))
    /\ [][WatchdogStops =>
            /\ tick_due
            /\ ~JogInTick
            /\ ~ManualStopInTick
            /\ current_time > manual_move_expire]_vars

\* a jog handled by a tick that began with the timer armed and not expired:
\* the timer is armed anew and no stop was sent
C27_Witness ==
    /\ pc[Loop] = "idlecheck"
    /\ JogInTick
    /\ tick_armed
    /\ ~tick_due
    /\ current_time >= ManualHold
    /\ tick_stops = << >>
    /\ manual_move_expire >= current_time + ManualHold

\* the manual handler has handled a direction move() does not know
UnknownJogHandled ==
    /\ pc[Loop] = "m_exec"
    /\ pc'[Loop] # "m_exec"
    /\ cmd.c.dir \notin Directions

\* C28 as stated: an M_<x> whose direction is none of up, down, left, right
\* and stop hands no frame to the transport and leaves manual_move_expire as
\* it was.  The handler's else branch takes every direction other than stop:
\* it sends the packet of move(x) and arms the timer.
C28_UnknownDirectionIgnored ==
    [][UnknownJogHandled =>
        /\ lastFrame' = NoFrame
        /\ manual_move_expire' = manual_move_expire]_vars

\* what the handler does with such a direction: a frame with command2 = 0
\* carrying both speeds is sent under the lock and the timer is armed
UnknownDirectionActs ==
    [][UnknownJogHandled =>
        /\ lastFrame' = Frame(Loop, "move", cmd.c.dir, 0, "M", Loop, NoPlan)
        /\ move(lastFrame'.code) = [command2 |-> 0, data1 |-> 32, data2 |-> 32]
        /\ manual_move_expire' = now + ManualHold]_vars

(***************************************************************************)
(* Properties of auto-return                                               *)
(***************************************************************************)
\* the loop worker is inside _perform_auto_return
InAutoReturn ==
    pc[Loop] \in {"ar_q_send", "ar_q_recv", "ar_for", "ar_wait", "ar_park"}

\* the step in which _perform_auto_return returns
AutoReturnReturns == InAutoReturn /\ ~InAutoReturn'

\* C21: is_returning is false whenever _perform_auto_return has returned, by
\* whichever path it left (no reading, cancellation, an exception from a Pelco
\* exchange, completion), and so is true only while the worker is inside it.
C21_AutoReturnClearsFlag ==
    /\ [][AutoReturnReturns => ~is_returning']_vars
    /\ [](is_returning => InAutoReturn)

\* auto-return has just completed with the park frame
C21_Witness ==
    /\ lastFrame # NoFrame
    /\ lastFrame.src = "auto_return"
    /\ lastFrame.code = "0x4D"
    /\ pc[Loop] = "top"
    /\ ~is_returning

(***************************************************************************)
(* Properties of query_angle                                               *)
(***************************************************************************)
\* a response the exchange accepts: non-empty, not the echo of the query, 7
\* bytes, checksum correct
Acceptable(query_cmd, r) ==
    /\ r # << >>
    /\ r # generate_packet(0, QueryCode(query_cmd), 0, 0)
    /\ Len(r) = 7
    /\ r[7] = (r[2] + r[3] + r[4] + r[5] + r[6]) % 256

\* the first three responses of the exchange that are acceptable
AcceptableReads ==
    { i \in 1..3 : Acceptable(codec.query_cmd, codec.reads[i]) }

FirstAcceptable == CHOOSE i \in AcceptableReads : \A j \in AcceptableReads : i <= j

\* C22: query_angle makes at most 10 drain reads, one send and at most 3
\* response reads; it returns the corrected value of the first acceptable
\* response among those reads, and None when the send fails or there is
\* none; nothing is raised to the caller.
C22_QueryBoundedNoiseTolerant ==
    codec.kind = "query" =>
        /\ codec.out.drains <= 10
        /\ codec.out.sends = 1
        /\ codec.out.reads <= 3
        /\ codec.out.result # Raised
        /\ (~codec.send_ok \/ AcceptableReads = {}) => codec.out.result = None
        /\ (codec.send_ok /\ AcceptableReads # {}) =>
              LET r == codec.reads[FirstAcceptable]
              IN  /\ codec.out.reads = FirstAcceptable
                  /\ codec.out.result =
                        apply_angle_correction(config, r[5] * 256 + r[6],
                                               codec.query_cmd)

\* a set frame of auto-return goes out in this step
AutoReturnFrame(code) ==
    /\ lastFrame' # NoFrame
    /\ lastFrame'.src = "auto_return"
    /\ lastFrame'.kind = "set"
    /\ lastFrame'.code = code

\* the loop worker takes a step of a waypoint wait
WaitStep == pc[Loop] = "ar_wait" /\ (pc'[Loop] # "ar_wait" \/ ar' # ar)

\* C25: after a reading of the start azimuth, auto-return sends the azimuth
\* sets start-120, start-240, start-360 (mod 360) in that order, the second
\* and third only once the 15 ticks of the wait before are over; each tick of
\* a wait tests is_returning and leaves with no further frame when it is
\* false; the elevation park set is sent only after the third wait is over
\* with is_returning true, and no set is sent without a reading.
C25_AutoReturnOrder ==
    /\ [][AutoReturnFrame("0x4B") =>
            /\ is_returning
            /\ ar.i \in 1..3
            /\ lastFrame'.value = (ar.start - 12000 * ar.i) % Rev
            /\ ar.wait_count = (IF ar.i = 1 THEN 0 ELSE WaitTicks)
            /\ ar'.wait_count = 0]_vars
    /\ [][AutoReturnFrame("0x4D") =>
            /\ is_returning
            /\ ar.i = 3
            /\ ar.wait_count = WaitTicks]_vars
    /\ [][WaitStep =>
            IF is_returning
            THEN /\ ar'.wait_count = ar.wait_count + 1
                 /\ ar'.wait_count <= WaitTicks
                 /\ lastFrame' = NoFrame
            ELSE ~InAutoReturn' /\ lastFrame' = NoFrame]_vars
    /\ [][(pc[Loop] = "ar_q_recv" /\ pc'[Loop] \notin {"ar_q_recv", "ar_for"}) =>
            (~InAutoReturn' /\ lastFrame' = NoFrame)]_vars

\* the third waypoint has gone out after two full waits
C25_Witness ==
    /\ pc[Loop] = "ar_wait"
    /\ ar.i = 3
    /\ ar.wait_count = 0
    /\ lastFrame # NoFrame
    /\ lastFrame.src = "auto_return"
    /\ lastFrame.value = (ar.start - 36000) % Rev

(***************************************************************************)
(* Properties of the angle query and the angle-control command             *)
(***************************************************************************)
\* thread t takes the step that ends its angle query after both reads
QueryEnds(t) == pc[t] = "q_update" /\ pc'[t] # "q_update"

\* C23: an angle query in which the azimuth or the elevation read returned
\* None answers "", leaves the rotator as it was and does not call the status
\* observer; when both reads succeeded the tracker takes the azimuth sample
\* and the observer is called once, with the new true azimuth and the
\* elevation.  The observer is called nowhere else.
C23_QueryAllOrNothing ==
    /\ [][\A t \in Workers :
            QueryEnds(t) =>
              IF q_az[t] = None \/ q_el[t] = None
              THEN /\ rotator' = rotator
                   /\ lastUpdate' = NoUpdate
                   /\ lastStatus' = NoStatus
                   /\ t = Loop => response' = Resp("")
              ELSE /\ rotator' = update_raw_angle(rotator, config, q_az[t])
                   /\ lastUpdate' # NoUpdate
                   /\ lastStatus' = Status(t, rotator'.current_true_az, q_el[t])
                   /\ t = Loop =>
                        response' = [text |-> "AZ=%03d EL=%03d\r\n",
                                     az |-> q_az[t] \div 100,
                                     el |-> q_el[t] \div 100]]_vars
    /\ [][lastStatus' # NoStatus => \E t \in Workers : QueryEnds(t)]_vars

\* a C2 of the client answered with both readings, the observer called
C23_Witness ==
    /\ lastStatus # NoStatus
    /\ lastStatus.by = Loop
    /\ lastStatus.true_az = rotator.current_true_az
    /\ response # NoResp
    /\ response.text = "AZ=%03d EL=%03d\r\n"

\* a frame of the angle-control command goes out in this step
ControlFrame(kind, code) ==
    /\ lastFrame' # NoFrame
    /\ lastFrame'.src = "W"
    /\ lastFrame'.kind = kind
    /\ lastFrame'.code = code

\* C24: the angle-control command makes its exchanges in the order azimuth
\* query, azimuth set, elevation set, each under the Pelco lock; the loop
\* worker holds the lock only inside an exchange, so it is free of it during
\* both sleeps between the phases and after every way out of the command
\* (no reading, limit rejection, exception, completion).
C24_ControlPhasesAndLock ==
    /\ [](pelco_lock = Loop => InExchange(Loop))
    /\ [](pc[Loop] \in {"w_set_az", "w_set_el"} => pelco_lock # Loop)
    /\ []((lastFrame # NoFrame /\ lastFrame.src = "W") => lastFrame.holder = Loop)
    /\ [][ControlFrame("query", "0x51") =>
            (curr_az_raw = None /\ w_success = NoSets)]_vars
    /\ [][ControlFrame("set", "0x4B") =>
            (curr_az_raw # None /\ w_success = NoSets)]_vars
    /\ [][ControlFrame("set", "0x4D") =>
            (curr_az_raw # None /\ w_success.az # "none"
             /\ w_success.el = "none")]_vars

\* between phase 1 and phase 2 another thread holds the lock
C24_Witness ==
    /\ pc[Loop] = "w_set_az"
    /\ pelco_lock \in {Sel, Cal}


\* the angle-control command leaves its phase ph
ControlLeaves(ph) == pc[Loop] = ph /\ pc'[Loop] # ph

\* C29: the angle-control command reaches its sets exactly with parsed
\* arguments, a reading and a safe plan; from there the elevation set follows
\* the azimuth set whatever the azimuth set returned, and the command returns
\* "ACK\r\n" whatever the two sets returned: W and \set_pos answer it, the
\* combined command goes on to its angle query.
C29_ControlAlwaysAcks ==
    /\ [](pc[Loop] \in {"w_set_az", "w_set_el"} =>
            /\ cmd.c.az # None
            /\ curr_az_raw \notin {None, Raised}
            /\ w_plan # NoPlan
            /\ w_plan.req = cmd.c.az
            /\ w_plan.out.is_safe)
    /\ [][ControlLeaves("w_set_az") =>
            /\ pc'[Loop] = "w_set_el"
            /\ w_success'.az \in SendResults]_vars
    /\ [][ControlLeaves("w_set_el") =>
            /\ lastFrame' = Frame(Loop, "set", "0x4D",
                                  handle_elevation(config, cmd.c.el), "W",
                                  Loop, NoPlan)
            /\ w_success'.el \in SendResults
            /\ IF cmd.c.op = "C2W"
               THEN pc'[Loop] = "q_send" /\ response' = response
               ELSE pc'[Loop] = "watchdog" /\ response' = Resp("ACK\r\n")]_vars

\* both sets failed and the command has answered ACK
C29_Witness ==
    /\ pc[Loop] = "watchdog"
    /\ cmd.c.op = "W"
    /\ w_success = [az |-> "False", el |-> "False"]
    /\ response = Resp("ACK\r\n")


(***************************************************************************)
(* Properties of the two locks                                             *)
(***************************************************************************)
\* stop() holds _connection_lock from its first statement to its return
ConnectionLockHeld == stop_pc # "idle"

\* thread t stands before a with self.pelco_lock
WantsPelco(t) ==
    \/ pc[t] = "q_send"
    \/ t = Loop /\ pc[t] \in {"w_q_send", "w_set_az", "w_set_el"}
    \/ t = Sel /\ pc[t] = "sel_set"

\* the step with which t enters that with block
AcquireStep(t) ==
    \/ query_send(t)
    \/ t = Loop /\ (control_query_send \/ control_set_az \/ control_set_el)
    \/ t = Sel /\ select_angle_worker

\* the step of a holder inside an exchange
HolderStep(t) ==
    \/ query_az_recv(t)
    \/ query_el_recv(t)
    \/ t = Loop /\ control_query_recv

\* C30: the Pelco lock is held only by a thread inside an exchange, which
\* can always go on and which holds no other lock and waits for none; a
\* thread before a with block enters it as soon as the lock is free; the
\* lock passes from one thread to another only through Free; the
\* connection lock is taken by a step of stop() alone, which holds no Pelco
\* lock then and takes it afterwards, and stop() can always go on once the
\* Pelco lock is free and the worker has ended.
C30_NoDeadlock ==
    /\ [](pelco_lock # Free =>
            /\ pelco_lock \in Workers
            /\ InExchange(pelco_lock)
            /\ ENABLED HolderStep(pelco_lock))
    /\ [](\A t \in Workers : InExchange(t) => pelco_lock = t)
    /\ [](\A t \in Workers :
            (WantsPelco(t) /\ pelco_lock = Free) => ENABLED AcquireStep(t))
    /\ [][\A t \in Workers :
            /\ (pelco_lock = t => pelco_lock' \in {t, Free})
            /\ ((pelco_lock # t /\ pelco_lock' = t) =>
                    (pelco_lock = Free /\ WantsPelco(t)))]_vars
    /\ [][(~ConnectionLockHeld /\ ConnectionLockHeld') =>
            (pc' = pc /\ pelco_lock' = pelco_lock)]_vars
    /\ []((stop_pc = "close_pelco" /\ pelco_lock = Free) =>
            ENABLED stop_close_pelco)
    /\ []((stop_pc = "joining" /\ ~ThreadAlive) => ENABLED stop_join)
    /\ []((stop_pc = "joining" /\ ThreadAlive) =>
            (~running /\ pc[Loop] # "new"))

\* stop() holds the connection lock and waits for the Pelco lock, which the
\* select_angle worker holds inside its refresh, while the loop worker waits
\* for it as well
C30_Witness ==
    /\ stop_pc = "close_pelco"
    /\ pelco_lock = Sel
    /\ pc[Sel] = "q_el_recv"
    /\ pc[Loop] = "q_send"


(***************************************************************************)
(* Properties of the tracker under concurrent callers                      *)
(***************************************************************************)
\* thread t is inside update_raw_angle
Updating(t) == pc[t] \in {"u_add", "u_last"}

\* C31 as stated: once initialized, whenever no thread is inside
\* update_raw_angle, current_true_az is congruent to last_raw_az modulo 360.
\* Two threads that both read last_raw_az before either has written it add
\* both differences to current_true_az.
C31_TrackerCongruent ==
    (rotator.initialized /\ \A t \in Workers : ~Updating(t)) =>
        (rotator.current_true_az - rotator.last_raw_az) % Rev = 0


(***************************************************************************)
(* Properties of the limit check against concurrent callers                *)
(***************************************************************************)
\* phase 2 of the angle-control command hands its azimuth set to the
\* transport
AzimuthSetSent ==
    /\ pc[Loop] = "w_set_az"
    /\ lastFrame' # NoFrame
    /\ lastFrame'.by = Loop
    /\ lastFrame'.code = "0x4B"

\* C32 as stated: whenever phase 2 sends the azimuth set, the target plan
\* computed from the tracker as it is at that moment is safe.  The lock is
\* free during the sleep between the phases, and a calibrate_turns call
\* there moves current_true_az by whole turns without phase 2 looking at
\* the tracker again.
C32_MoveStillSafe ==
    [][AzimuthSetSent => get_target_plan(rotator, config, cmd.c.az).is_safe]_vars


(***************************************************************************)
(* Properties of start() after stop()                                      *)
(***************************************************************************)
\* C33 as stated: whenever running is true, a loop worker exists that is in
\* the main loop or about to enter it.  start() after stop() sets running
\* and then fails to start the Thread object a second time, so running stays
\* true with the only worker ended.
C33_RunningHasWorker == running => ThreadAlive


(***************************************************************************)
(* Properties of stop() against a busy worker                              *)
(***************************************************************************)
\* C34: once stop() has cleared running, the loop worker eventually leaves
\* _run, whether it was polling, inside an angle-control command or inside
\* auto-return.
C34_WorkerTerminates ==
    (starts >= 1 /\ ~running) ~> (pc[Loop] = "done")

\* the worker has ended while stop() was still joining it, after sleeping
\* in an auto-return wait during the join
C34_Witness ==
    /\ stop_pc = "joining"
    /\ join_left < JoinTimeout
    /\ pc[Loop] = "done"


(***************************************************************************)
(* Properties of the transports after stop()                               *)
(***************************************************************************)
\* a call of stop() has returned
StopReturned == stops >= 1

C36_OffsetOnce ==
    Len(samples) >= 1 =>
        rotator.last_raw_az =
            (samples[Len(samples)]
               + (config.azimuth_offset + config.initial_azimuth) * 100) % Rev

====
